---------------------------- MODULE Spec2Model ----------------------------
(***************************************************************************)
(* A model of apisnip: the endpoint catalogue, the search session and the  *)
(* pruning of an OpenAPI document to the selected endpoints.               *)
(*                                                                         *)
(* Strings are sequences of byte values, so that split('/'), starts_with,  *)
(* join and the byte-wise ordering of paths are computed, not assumed.     *)
(* A serde_yaml Value is a record [t, s, items, kv]: t is the variant,     *)
(* s the bytes of a String (or the digits of a Number), items the members  *)
(* of a Sequence and kv the <<key, value>> pairs of a Mapping in insertion *)
(* order, the keys being Values themselves.                                *)
(***************************************************************************)
EXTENDS Integers, Sequences, FiniteSets, TLC

(***************************************************************************)
(* String literals of the source, as bytes.                                *)
(***************************************************************************)
sPaths == <<112, 97, 116, 104, 115>>                                  \* "paths"
sComponents == <<99, 111, 109, 112, 111, 110, 101, 110, 116, 115>>    \* "components"
sSecurity == <<115, 101, 99, 117, 114, 105, 116, 121>>                \* "security"
sRef == <<36, 114, 101, 102>>                                         \* "$ref"
sSecuritySchemes == <<115, 101, 99, 117, 114, 105, 116, 121, 83, 99, 104, 101, 109, 101, 115>>  \* "securitySchemes"
sSummary == <<115, 117, 109, 109, 97, 114, 121>>                      \* "summary"
sDescription == <<100, 101, 115, 99, 114, 105, 112, 116, 105, 111, 110>>  \* "description"
sNoDescription == <<78, 111, 32, 100, 101, 115, 99, 114, 105, 112, 116, 105, 111, 110>>  \* "No description"
sParameters == <<112, 97, 114, 97, 109, 101, 116, 101, 114, 115>>     \* "parameters"
sName == <<110, 97, 109, 101>>                                        \* "name"
sIn == <<105, 110>>                                                   \* "in"
sPath == <<112, 97, 116, 104>>                                        \* "path"
sBody == <<98, 111, 100, 121>>                                        \* "body"
sQuery == <<113, 117, 101, 114, 121>>                                 \* "query"
sBodyColon == <<98, 111, 100, 121, 58>>                               \* "body:"
sQuestion == <<63>>                                                   \* "?"
sSlash == <<47>>                                                      \* "/"
sRefPrefix == <<35, 47, 99, 111, 109, 112, 111, 110, 101, 110, 116, 115, 47>>  \* "#/components/"

(***************************************************************************)
(* serde_yaml::Value                                                       *)
(***************************************************************************)
Null == [t |-> "null", s |-> <<>>, items |-> <<>>, kv |-> <<>>]
Num(digits) == [t |-> "num", s |-> digits, items |-> <<>>, kv |-> <<>>]
Str(bytes) == [t |-> "str", s |-> bytes, items |-> <<>>, kv |-> <<>>]
Sequence(vs) == [t |-> "seq", s |-> <<>>, items |-> vs, kv |-> <<>>]
Mapping(pairs) == [t |-> "map", s |-> <<>>, items |-> <<>>, kv |-> pairs]

\* Option<T>: None, or Some(v)
None == [some |-> FALSE]
Some(v) == [some |-> TRUE, v |-> v]

is_str(v) == v.t = "str"
is_mapping(v) == v.t = "map"
is_sequence(v) == v.t = "seq"

\* as_str().unwrap_or("")
str_or_empty(v) == IF is_str(v) THEN v.s ELSE <<>>

\* Mapping::keys, Mapping::values
keys(m) == [i \in 1..Len(m.kv) |-> m.kv[i][1]]
values(m) == [i \in 1..Len(m.kv) |-> m.kv[i][2]]

contains_key(m, k) == \E i \in 1..Len(m.kv) : m.kv[i][1] = k

\* Mapping::get, of a key that is present
get(m, k) == m.kv[CHOOSE i \in 1..Len(m.kv) : m.kv[i][1] = k][2]

\* Value::get / Mapping::get as an Option; None on a value that is no mapping
get_opt(m, k) ==
    IF is_mapping(m) /\ contains_key(m, k) THEN Some(get(m, k)) ELSE None

\* Mapping::insert: a present key keeps its position and takes the new value
insert(m, k, v) ==
    IF contains_key(m, k)
    THEN Mapping([i \in 1..Len(m.kv) |->
                    IF m.kv[i][1] = k THEN <<k, v>> ELSE m.kv[i]])
    ELSE Mapping(Append(m.kv, <<k, v>>))

(***************************************************************************)
(* str operations                                                          *)
(***************************************************************************)
starts_with(str, prefix) ==
    /\ Len(str) >= Len(prefix)
    /\ SubSeq(str, 1, Len(prefix)) = prefix

RECURSIVE SplitFrom(_, _, _, _)
SplitFrom(str, i, cur, acc) ==
    IF i > Len(str) THEN Append(acc, cur)
    ELSE IF str[i] = sSlash[1] THEN SplitFrom(str, i + 1, <<>>, Append(acc, cur))
    ELSE SplitFrom(str, i + 1, Append(cur, str[i]), acc)

\* str::split('/') collected
split(str) == SplitFrom(str, 1, <<>>, <<>>)

RECURSIVE join(_)
\* [&str]::join("/")
join(parts) ==
    IF Len(parts) = 0 THEN <<>>
    ELSE IF Len(parts) = 1 THEN parts[1]
    ELSE parts[1] \o sSlash \o join(Tail(parts))

RECURSIVE str_lt(_, _)
\* a < b for str (Ord for str: byte-wise lexicographic)
str_lt(a, b) ==
    IF Len(b) = 0 THEN FALSE
    ELSE IF Len(a) = 0 THEN TRUE
    ELSE IF a[1] # b[1] THEN a[1] < b[1]
    ELSE str_lt(Tail(a), Tail(b))

RECURSIVE Concat(_)
\* the concatenation of a sequence of sequences (Vec::extend in a loop)
Concat(ss) == IF Len(ss) = 0 THEN <<>> ELSE ss[1] \o Concat(Tail(ss))

RECURSIVE unique(_)
\* Itertools::unique: first occurrences, in order
unique(xs) ==
    IF Len(xs) = 0 THEN <<>>
    ELSE LET init == unique(SubSeq(xs, 1, Len(xs) - 1))
             last == xs[Len(xs)]
         IN IF \E i \in 1..Len(init) : init[i] = last THEN init
            ELSE Append(init, last)

Range(xs) == {xs[i] : i \in 1..Len(xs)}

(***************************************************************************)
(* References                                                              *)
(***************************************************************************)
RECURSIVE fetch_all_references_no_sequences(_)
\* a scan that goes down through mappings only
fetch_all_references_no_sequences(value) ==
    IF is_mapping(value) THEN
        LET own == IF contains_key(value, Str(sRef)) /\ is_str(get(value, Str(sRef)))
                   THEN <<get(value, Str(sRef)).s>> ELSE <<>>
        IN own \o Concat([i \in 1..Len(value.kv) |->
                             fetch_all_references_no_sequences(value.kv[i][2])])
    ELSE <<>>

RECURSIVE fetch_all_references(_)
fetch_all_references(value) ==
    IF is_mapping(value) THEN
        LET own == IF contains_key(value, Str(sRef)) /\ is_str(get(value, Str(sRef)))
                   THEN <<get(value, Str(sRef)).s>> ELSE <<>>
        IN own \o Concat([i \in 1..Len(value.kv) |->
                             fetch_all_references(value.kv[i][2])])
    ELSE IF is_sequence(value) THEN
        Concat([i \in 1..Len(value.items) |-> fetch_all_references(value.items[i])])
    ELSE <<>>

strip_path_from_references(references) ==
    [i \in 1..Len(references) |->
        LET parts == split(references[i]) IN parts[Len(parts)]]

\* Some(<<component_type, component_name>>), or None
parse_component_ref(ref_str) ==
    IF starts_with(ref_str, sRefPrefix) THEN
        LET parts == split(ref_str)
        IN IF Len(parts) >= 4
           THEN Some(<<parts[3], join(SubSeq(parts, 4, Len(parts)))>>)
           ELSE None
    ELSE None

RECURSIVE InsertRefs_unchecked(_, _, _)
\* the loop with every parsed key pushed, seen before or not
InsertRefs_unchecked(refs, i, st) ==
    IF i > Len(refs) THEN st
    ELSE LET p == parse_component_ref(refs[i])
         IN IF p.some
            THEN InsertRefs_unchecked(refs, i + 1,
                                      [all_refs |-> st.all_refs \cup {p.v},
                                       to_process |-> Append(st.to_process, p.v)])
            ELSE InsertRefs_unchecked(refs, i + 1, st)

RECURSIVE InsertRefs(_, _, _)
\* the loop "if all_refs.insert(key) { to_process.push(key) }" over refs;
\* st = [all_refs, to_process]
InsertRefs(refs, i, st) ==
    IF i > Len(refs) THEN st
    ELSE LET p == parse_component_ref(refs[i])
         IN IF p.some /\ p.v \notin st.all_refs
            THEN InsertRefs(refs, i + 1,
                            [all_refs |-> st.all_refs \cup {p.v},
                             to_process |-> Append(st.to_process, p.v)])
            ELSE InsertRefs(refs, i + 1, st)

\* an iteration that takes the popped key out of the set again
ProcessOne_forgetting(components, st) ==
    LET n == Len(st.to_process)
        key == st.to_process[n]
        popped == [all_refs |-> st.all_refs \ {key},
                   to_process |-> SubSeq(st.to_process, 1, n - 1)]
        comp_section == get_opt(components, Str(key[1]))
        comp_value == IF comp_section.some
                      THEN get_opt(comp_section.v, Str(key[2])) ELSE None
    IN IF comp_value.some
       THEN InsertRefs(fetch_all_references(comp_value.v), 1, popped)
       ELSE popped

\* one iteration of "while let Some(..) = to_process.pop()"
ProcessOne(components, st) ==
    LET n == Len(st.to_process)
        key == st.to_process[n]
        popped == [st EXCEPT !.to_process = SubSeq(st.to_process, 1, n - 1)]
        comp_section == get_opt(components, Str(key[1]))
        comp_value == IF comp_section.some
                      THEN get_opt(comp_section.v, Str(key[2])) ELSE None
    IN IF comp_value.some
       THEN InsertRefs(fetch_all_references(comp_value.v), 1, popped)
       ELSE popped

\* a closure that follows the references of the seeds only, one level deep
ProcessAll_one_level(components, st) ==
    LET Nested(key) ==
            LET comp_section == get_opt(components, Str(key[1]))
                comp_value == IF comp_section.some
                              THEN get_opt(comp_section.v, Str(key[2])) ELSE None
            IN IF comp_value.some
               THEN InsertRefs(fetch_all_references(comp_value.v), 1,
                               [all_refs |-> {}, to_process |-> <<>>]).all_refs
               ELSE {}
    IN [all_refs |-> st.all_refs \cup UNION {Nested(key) : key \in Range(st.to_process)},
        to_process |-> <<>>]

RECURSIVE ProcessAll(_, _)
ProcessAll(components, st) ==
    IF Len(st.to_process) = 0 THEN st
    ELSE ProcessAll(components, ProcessOne(components, st))

collect_transitive_references(components, initial_refs) ==
    ProcessAll(components,
               InsertRefs(initial_refs, 1,
                          [all_refs |-> {}, to_process |-> <<>>])).all_refs

RECURSIVE MappingKeyStrs(_)
\* the string keys of a mapping, in order
MappingKeyStrs(m) ==
    IF Len(m.kv) = 0 THEN <<>>
    ELSE (IF is_str(m.kv[1][1]) THEN <<m.kv[1][1].s>> ELSE <<>>)
         \o MappingKeyStrs(Mapping(Tail(m.kv)))

\* the list-of-mappings form only
extract_security_schemes_list_only(value) ==
    IF is_sequence(value) THEN
        Concat([i \in 1..Len(value.items) |->
                   IF is_mapping(value.items[i])
                   THEN MappingKeyStrs(value.items[i]) ELSE <<>>])
    ELSE <<>>

extract_security_schemes(value) ==
    IF is_sequence(value) THEN
        Concat([i \in 1..Len(value.items) |->
                   IF is_mapping(value.items[i])
                   THEN MappingKeyStrs(value.items[i]) ELSE <<>>])
    ELSE IF is_mapping(value) THEN MappingKeyStrs(value)
    ELSE <<>>

(***************************************************************************)
(* process_spec_for_output                                                 *)
(* selected_items is the list of selected endpoints; only their path is    *)
(* read.  The spec has a "paths" mapping (the unwrap at the top).          *)
(***************************************************************************)
\* the selected paths in the reverse of the order of the selection
SelectedPaths_reversed(original, selected_items, paths) ==
    LET there == SelectSeq(selected_items,
                           LAMBDA item : contains_key(original, Str(item.path)))
    IN Mapping([i \in 1..Len(there) |->
                   <<Str(there[Len(there) + 1 - i].path),
                     get(original, Str(there[Len(there) + 1 - i].path))>>])

\* the selected paths in the order of the document
SelectedPaths_document_order(original, selected_items, paths) ==
    Mapping(SelectSeq(original.kv,
                      LAMBDA kv : \E i \in 1..Len(selected_items) :
                                      Str(selected_items[i].path) = kv[1]))

RECURSIVE SelectedPaths(_, _, _)
\* "for item in selected_items { if let Some(path_data) = ... paths.insert }"
SelectedPaths(original, selected_items, paths) ==
    IF Len(selected_items) = 0 THEN paths
    ELSE LET key == Str(selected_items[1].path)
         IN SelectedPaths(original, Tail(selected_items),
                IF contains_key(original, key)
                THEN insert(paths, key, get(original, key))
                ELSE paths)

\* the references of the first selected endpoint only
InitialRefs_first_item(original, selected_items) ==
    IF Len(selected_items) = 0 THEN <<>>
    ELSE LET d == get_opt(original, Str(selected_items[1].path))
         IN IF d.some THEN fetch_all_references(d.v) ELSE <<>>

InitialRefs(original, selected_items) ==
    Concat([i \in 1..Len(selected_items) |->
               LET d == get_opt(original, Str(selected_items[i].path))
               IN IF d.some THEN fetch_all_references(d.v) ELSE <<>>])

\* the security scheme names of one path item: every operation's "security"
PathSecuritySchemes(path_data) ==
    IF is_mapping(path_data) THEN
        Concat([i \in 1..Len(path_data.kv) |->
                   LET security == get_opt(path_data.kv[i][2], Str(sSecurity))
                   IN IF security.some
                      THEN extract_security_schemes(security.v) ELSE <<>>])
    ELSE <<>>

\* without the top-level "security"
SecuritySchemes_operations_only(spec, original, selected_items) ==
    Range(Concat([i \in 1..Len(selected_items) |->
                     LET d == get_opt(original, Str(selected_items[i].path))
                     IN IF d.some THEN PathSecuritySchemes(d.v) ELSE <<>>]))

SecuritySchemes(spec, original, selected_items) ==
    Range(Concat([i \in 1..Len(selected_items) |->
                     LET d == get_opt(original, Str(selected_items[i].path))
                     IN IF d.some THEN PathSecuritySchemes(d.v) ELSE <<>>]))
    \cup (IF contains_key(spec, Str(sSecurity))
          THEN Range(extract_security_schemes(get(spec, Str(sSecurity))))
          ELSE {})

should_include(child_key_str, item_key_str, all_component_refs, security_schemes) ==
    \/ <<child_key_str, item_key_str>> \in all_component_refs
    \/ (child_key_str = sSecuritySchemes /\ item_key_str \in security_schemes)

RECURSIVE FilterSection(_, _, _, _)
\* the members of one component section that are kept
FilterSection(pairs, child_key_str, all_component_refs, security_schemes) ==
    IF Len(pairs) = 0 THEN <<>>
    ELSE (IF should_include(child_key_str, str_or_empty(pairs[1][1]),
                            all_component_refs, security_schemes)
          THEN <<pairs[1]>> ELSE <<>>)
         \o FilterSection(Tail(pairs), child_key_str, all_component_refs,
                          security_schemes)

RECURSIVE FilterComponents_keep_empty(_, _, _)
\* without the test "!filtered_section.is_empty()"
FilterComponents_keep_empty(pairs, all_component_refs, security_schemes) ==
    IF Len(pairs) = 0 THEN <<>>
    ELSE LET child_key == pairs[1][1]
             child_value == pairs[1][2]
             filtered_section ==
                 IF is_mapping(child_value)
                 THEN FilterSection(child_value.kv, str_or_empty(child_key),
                                    all_component_refs, security_schemes)
                 ELSE <<>>
         IN << <<child_key, Mapping(filtered_section)>> >>
            \o FilterComponents_keep_empty(Tail(pairs), all_component_refs,
                                           security_schemes)

RECURSIVE FilterComponents(_, _, _)
\* the component sections that keep a member
FilterComponents(pairs, all_component_refs, security_schemes) ==
    IF Len(pairs) = 0 THEN <<>>
    ELSE LET child_key == pairs[1][1]
             child_value == pairs[1][2]
             filtered_section ==
                 IF is_mapping(child_value)
                 THEN FilterSection(child_value.kv, str_or_empty(child_key),
                                    all_component_refs, security_schemes)
                 ELSE <<>>
         IN (IF Len(filtered_section) # 0
             THEN << <<child_key, Mapping(filtered_section)>> >> ELSE <<>>)
            \o FilterComponents(Tail(pairs), all_component_refs, security_schemes)

\* an output that starts with "paths" and copies the other keys after it
AssembleOutput_paths_first(spec, paths, all_component_refs, security_schemes) ==
    Mapping(<< <<Str(sPaths), paths>> >>
            \o SelectSeq([i \in 1..Len(spec.kv) |->
                            IF spec.kv[i][1] = Str(sComponents) THEN
                                <<spec.kv[i][1],
                                  Mapping(IF is_mapping(spec.kv[i][2])
                                          THEN FilterComponents(spec.kv[i][2].kv,
                                                   all_component_refs, security_schemes)
                                          ELSE <<>>)>>
                            ELSE spec.kv[i]],
                         LAMBDA kv : kv[1] # Str(sPaths)))

\* the loop over key_order that builds the output
AssembleOutput(spec, paths, all_component_refs, security_schemes) ==
    Mapping([i \in 1..Len(spec.kv) |->
          LET key == spec.kv[i][1]
              value == spec.kv[i][2]
          IN IF key = Str(sPaths) THEN <<key, paths>>
             ELSE IF key = Str(sComponents) THEN
                 <<key, Mapping(IF is_mapping(value)
                                THEN FilterComponents(value.kv, all_component_refs,
                                                      security_schemes)
                                ELSE <<>>)>>
             ELSE <<key, value>>])

process_spec_for_output(spec, selected_items) ==
    LET original_path_specifications == get(spec, Str(sPaths))
        paths == SelectedPaths(original_path_specifications, selected_items,
                               Mapping(<<>>))
        initial_refs == InitialRefs(original_path_specifications, selected_items)
        security_schemes ==
            SecuritySchemes(spec, original_path_specifications, selected_items)
        comps == get_opt(spec, Str(sComponents))
        components == IF comps.some /\ is_mapping(comps.v)
                      THEN comps.v ELSE Mapping(<<>>)
        all_component_refs == collect_transitive_references(components, initial_refs)
    IN AssembleOutput(spec, paths, all_component_refs, security_schemes)

(***************************************************************************)
(* fetch_endpoints_from_spec                                               *)
(***************************************************************************)
\* Endpoint::default() and Method
DefaultEndpoint ==
    [methods |-> <<>>, path |-> <<>>, description |-> <<>>, refs |-> <<>>,
     status |-> "Unselected", parameters |-> <<>>]

Method(method, description) == [method |-> method, description |-> description]

\* the prefixed name one member of a "parameters" array adds, if any
ParameterOf(param) ==
    LET name_value == get_opt(param, Str(sName))
        in_value == get_opt(param, Str(sIn))
        prefix == IF in_value.some /\ is_str(in_value.v)
                  THEN (IF in_value.v.s = sPath THEN sSlash
                        ELSE IF in_value.v.s = sBody THEN sBodyColon
                        ELSE IF in_value.v.s = sQuery THEN sQuestion
                        ELSE <<>>)
                  ELSE <<>>
    IN IF name_value.some /\ is_str(name_value.v)
       THEN <<prefix \o name_value.v.s>> ELSE <<>>

extract_parameters(params_array, parameters) ==
    parameters \o Concat([i \in 1..Len(params_array) |-> ParameterOf(params_array[i])])

\* op.as_mapping().and_then(get(key)).and_then(as_str).unwrap_or(default)
OpStr(op, key, default) ==
    LET v == get_opt(op, Str(key))
    IN IF v.some /\ is_str(v.v) THEN v.v.s ELSE default

RECURSIVE OpsLoop(_, _)
\* "for (ops_method, op) in ops_map": st = [item, refs]; every key is a string
OpsLoop(pairs, st) ==
    IF Len(pairs) = 0 THEN st
    ELSE LET method_str == pairs[1][1].s
             op == pairs[1][2]
             rest == Tail(pairs)
         IN IF method_str = sSummary THEN
                OpsLoop(rest, [st EXCEPT !.item.description = str_or_empty(op)])
            ELSE IF method_str = sDescription /\ Len(st.item.description) = 0 THEN
                OpsLoop(rest, [st EXCEPT !.item.description = str_or_empty(op)])
            ELSE
                LET summary == OpStr(op, sSummary, <<>>)
                    description == OpStr(op, sDescription, sNoDescription)
                    params == get_opt(op, Str(sParameters))
                    parameters ==
                        IF params.some /\ is_sequence(params.v)
                        THEN extract_parameters(params.v.items, st.item.parameters)
                        ELSE st.item.parameters
                    method == Method(method_str,
                                     IF Len(summary) # 0 THEN summary ELSE description)
                IN OpsLoop(rest,
                     [item |-> [st.item EXCEPT !.parameters = parameters,
                                               !.methods = Append(@, method)],
                      refs |-> st.refs \o fetch_all_references(op)])

\* the table item of one (path, ops) pair
TableItem(path, ops) ==
    LET st == OpsLoop(ops.kv, [item |-> DefaultEndpoint, refs |-> <<>>])
    IN [st.item EXCEPT !.path = path.s,
                       !.refs = unique(strip_path_from_references(st.refs))]

RECURSIVE SortedInsert(_, _)
\* item put after every member of the sorted list whose path is not greater
SortedInsert(sorted, item) ==
    IF Len(sorted) = 0 THEN <<item>>
    ELSE IF str_lt(item.path, sorted[1].path) THEN <<item>> \o sorted
    ELSE <<sorted[1]>> \o SortedInsert(Tail(sorted), item)

\* the items left in the order of the document
sort_by_path_unsorted(items) == items

RECURSIVE sort_by_path(_)
\* Vec::sort_by(|a, b| a.path.cmp(&b.path)): the stable sort
sort_by_path(items) ==
    IF Len(items) = 0 THEN <<>>
    ELSE SortedInsert(sort_by_path(SubSeq(items, 1, Len(items) - 1)),
                      items[Len(items)])

\* of a spec whose "paths" is a mapping of string keys to mappings of string keys
fetch_endpoints_from_spec(spec) ==
    LET paths == get(spec, Str(sPaths))
    IN sort_by_path([i \in 1..Len(paths.kv) |->
                        TableItem(paths.kv[i][1], paths.kv[i][2])])

(***************************************************************************)
(* The documents and selections the assembly is checked on.                *)
(***************************************************************************)
sOpenapi == <<111, 112, 101, 110, 97, 112, 105>>                      \* "openapi"
sInfo == <<105, 110, 102, 111>>                                       \* "info"
sV3 == <<51, 46, 48>>                                                 \* "3.0"
sGet == <<103, 101, 116>>                                             \* "get"
sPost == <<112, 111, 115, 116>>                                       \* "post"
sRequestBody == <<114, 101, 113, 117, 101, 115, 116, 66, 111, 100, 121>>  \* "requestBody"
sResponses == <<114, 101, 115, 112, 111, 110, 115, 101, 115>>         \* "responses"
sAllOf == <<97, 108, 108, 79, 102>>                                   \* "allOf"
sSchemas == <<115, 99, 104, 101, 109, 97, 115>>                       \* "schemas"
sA == <<65>>                                                          \* "A"
sB == <<66>>                                                          \* "B"
sC == <<67>>                                                          \* "C"
sD == <<68>>                                                          \* "D"
sPathA == <<47, 97>>                                                  \* "/a"
sPathB == <<47, 98>>                                                  \* "/b"
sPathC == <<47, 99>>                                                  \* "/c"
sExternalRef == <<120, 46, 121, 97, 109, 108, 35, 47, 65>>            \* "x.yaml#/A"
sLongRef == <<35, 47, 99, 111, 109, 112, 111, 110, 101, 110, 116, 115, 47, 115, 99, 104, 101, 109, 97, 115, 47, 65, 47, 120>>  \* "#/components/schemas/A/x"
sShortRef == <<35, 47, 99, 111, 109, 112, 111, 110, 101, 110, 116, 115, 47, 115, 99, 104, 101, 109, 97, 115>>  \* "#/components/schemas"

\* the most endpoints a selection holds
MaxSelected == 2

EmptyMap == Mapping(<<>>)
Entry(k, v) == <<Str(k), v>>
\* "#/components/<category>/<name>"
RefString(category, name) == sRefPrefix \o category \o sSlash \o name
RefObject(r) == Mapping(<<Entry(sRef, Str(r))>>)
\* a security requirement in its two forms
SecurityList(name) == Sequence(<<Mapping(<<Entry(name, Sequence(<<>>))>>)>>)
SecurityMap(name) == Mapping(<<Entry(name, Sequence(<<>>))>>)

\* path items
ItemSecurityList ==
    Mapping(<<Entry(sGet, Mapping(<<Entry(sSecurity, SecurityList(sA))>>))>>)
ItemSecurityMap ==
    Mapping(<<Entry(sGet, Mapping(<<Entry(sSecurity, SecurityMap(sB))>>))>>)
ItemRef(r) ==
    Mapping(<<Entry(sPost, Mapping(<<Entry(sRequestBody, RefObject(r))>>))>>)
\* a path-level reference inside a sequence, beside an operation
ItemPathLevelRef ==
    Mapping(<<Entry(sParameters, Sequence(<<RefObject(RefString(sSchemas, sB))>>)),
              Entry(sGet, EmptyMap)>>)
\* references that are not of the shape #/components/<category>/<name>
ItemOtherRefs ==
    Mapping(<<Entry(sGet, Mapping(<<Entry(sResponses,
        Sequence(<<RefObject(sExternalRef), RefObject(sLongRef),
                   RefObject(sShortRef)>>))>>))>>)

ItemsA == {ItemSecurityList, ItemRef(RefString(sSchemas, sA)), ItemPathLevelRef,
           ItemOtherRefs, EmptyMap}
ItemsB == {ItemSecurityMap, ItemRef(RefString(sSchemas, sC)), EmptyMap}

PathsMappings ==
    {Mapping(<<Entry(sPathA, a), Entry(sPathB, b)>>) : a \in ItemsA, b \in ItemsB}
    \cup {Mapping(<<Entry(sPathB, b), Entry(sPathA, a)>>) : a \in ItemsA, b \in ItemsB}
    \cup {Mapping(<<Entry(sPathA, a)>>) : a \in ItemsA}

\* component bodies; Null stands for a member that is not defined
BodiesA == {Null, Mapping(<<Entry(sAllOf, Sequence(<<RefObject(RefString(sSchemas, sB))>>))>>),
            RefObject(RefString(sSchemas, sA))}
BodiesB == {Null, RefObject(RefString(sSchemas, sC)),
            RefObject(RefString(sSchemas, sA))}
BodiesC == {EmptyMap, RefObject(RefString(sSecuritySchemes, sB))}

RECURSIVE Defined(_)
\* the members given a body
Defined(pairs) ==
    IF Len(pairs) = 0 THEN <<>>
    ELSE (IF pairs[1][2] = Null THEN <<>> ELSE <<pairs[1]>>) \o Defined(Tail(pairs))

SchemasSections ==
    {Mapping(Defined(<<Entry(sA, a), Entry(sB, b), Entry(sC, c), Entry(sD, EmptyMap)>>)) :
        a \in BodiesA, b \in BodiesB, c \in BodiesC}

\* securitySchemes: absent (Null), two schemes, no scheme, or no mapping at all
SecuritySections ==
    {Null,
     Mapping(<<Entry(sA, EmptyMap), Entry(sB, RefObject(RefString(sSchemas, sD)))>>),
     EmptyMap,
     Str(sV3)}

ComponentsSections ==
    {Mapping(<<Entry(sSchemas, s)>>
             \o (IF sec = Null THEN <<>> ELSE <<Entry(sSecuritySchemes, sec)>>)) :
        s \in SchemasSections, sec \in SecuritySections}

\* the documents: four top-level layouts
Documents ==
    {Mapping(<<Entry(sOpenapi, Str(sV3)), Entry(sPaths, p), Entry(sComponents, c)>>) :
        p \in PathsMappings, c \in ComponentsSections}
    \cup {Mapping(<<Entry(sComponents, c), Entry(sSecurity, SecurityList(sA)),
                    Entry(sPaths, p), Entry(sInfo, EmptyMap)>>) :
        p \in PathsMappings, c \in ComponentsSections}
    \cup {Mapping(<<Entry(sPaths, p), Entry(sSecurity, SecurityMap(sB))>>) :
        p \in PathsMappings}
    \cup {Mapping(<<Entry(sInfo, EmptyMap), Entry(sPaths, p), Entry(sComponents, Null)>>) :
        p \in PathsMappings}

\* a selected endpoint: process_spec_for_output reads its path only
SelectedEndpoint(path) == [DefaultEndpoint EXCEPT !.path = path, !.status = "Selected"]

\* the lists of at most MaxSelected distinct endpoints, in any order; no
\* document has the path "/c"
Selections ==
    {sel \in UNION {[1..n -> {SelectedEndpoint(sPathA), SelectedEndpoint(sPathB),
                              SelectedEndpoint(sPathC)}] : n \in 0..MaxSelected} :
        \A i, j \in 1..Len(sel) : i # j => sel[i] # sel[j]}

VARIABLES
    spec,            \* the document (AppModel.spec)
    selected_items,  \* the argument of process_spec_for_output
    output,          \* its result
    table_items,     \* AppModel.table_items: the visible endpoint list
    pc,              \* where the run is
    cursor,          \* table_state.selected(): Option of a 0-based index
    search_active,   \* search_state.active
    query,           \* the text of the search input
    backup,          \* Option of the full endpoint list
    last_msg,        \* the message handled last and what the list was then
    all_refs,        \* collect_transitive_references: the set of pairs seen
    to_process,      \* collect_transitive_references: the work list
    pushed,          \* every pair pushed on the work list so far, in order
    input,           \* what reading and parsing the input file gives
    running_state,   \* AppModel.running_state
    exit_code,       \* Option of the exit code of the process
    frames,          \* the frames drawn
    events,          \* the messages processed
    writes,          \* the attempts to write the output file
    stderr,          \* what the process has reported
    disk,            \* the content of the output file, Null while there is none
    file_path,       \* the path given to read_spec or write_spec
    result           \* the value read_spec or write_spec returned

closureVars == <<all_refs, to_process, pushed>>

runVars == <<input, running_state, exit_code, frames, events, writes, stderr, disk>>

fileVars == <<file_path, result>>

vars == <<spec, selected_items, output, table_items, pc, cursor, search_active,
          query, backup, last_msg, closureVars, runVars, fileVars>>

searchVars == <<cursor, search_active, query, backup, last_msg>>

\* Option values held in variables
NoIndex == [some |-> FALSE, v |-> 0]
NoBackup == [some |-> FALSE, v |-> <<>>]
NoMessage == [msg |-> "None", narrowed |-> FALSE, toggled |-> FALSE]

NoExit == [some |-> FALSE, v |-> 0]
NoResult == [ok |-> FALSE, err |-> "", v |-> Null]

\* no closure under way
NoClosure ==
    /\ all_refs = {}
    /\ to_process = <<>>
    /\ pushed = <<>>

\* no process running
NoRun ==
    /\ input = Null
    /\ running_state = "Running"
    /\ exit_code = NoExit
    /\ frames = 0
    /\ events = 0
    /\ writes = 0
    /\ stderr = <<>>
    /\ disk = Null

\* no file read or written through read_spec and write_spec
NoFile ==
    /\ file_path = <<>>
    /\ result = NoResult

\* no search session
NoSearch ==
    /\ cursor = NoIndex
    /\ search_active = FALSE
    /\ query = <<>>
    /\ backup = NoBackup
    /\ last_msg = NoMessage

(***************************************************************************)
(* Spec: process_spec_for_output applied to a document and a selection.    *)
(***************************************************************************)
Init ==
    /\ spec \in Documents
    /\ selected_items \in Selections
    /\ output = Null
    /\ table_items = <<>>
    /\ pc = "ready"
    /\ NoSearch
    /\ NoClosure
    /\ NoRun
    /\ NoFile

\* the selection is drained while the output is computed
Process_draining ==
    /\ pc = "ready"
    /\ output' = process_spec_for_output(spec, selected_items)
    /\ selected_items' = <<>>
    /\ pc' = "done"
    /\ UNCHANGED <<spec, table_items, searchVars>>
    /\ UNCHANGED <<closureVars, runVars, fileVars>>

Process ==
    /\ pc = "ready"
    /\ output' = process_spec_for_output(spec, selected_items)
    /\ pc' = "done"
    /\ UNCHANGED <<spec, selected_items, table_items, searchVars>>
    /\ UNCHANGED <<closureVars, runVars, fileVars>>

Next == Process

Spec == Init /\ [][Next]_vars

(***************************************************************************)
(* What the claims speak of, stated on the documents themselves: the       *)
(* defined components, the references of a subtree, reachability and the   *)
(* names of the security requirements.                                     *)
(***************************************************************************)
ComponentsOf(doc) ==
    LET c == get_opt(doc, Str(sComponents))
    IN IF c.some /\ is_mapping(c.v) THEN c.v ELSE EmptyMap

\* the <<category, name>> pairs that have a definition under doc.components
DefinedComponents(doc) ==
    LET comps == ComponentsOf(doc)
    IN UNION {IF is_mapping(comps.kv[i][2])
              THEN {<<comps.kv[i][1].s, comps.kv[i][2].kv[j][1].s>> :
                       j \in 1..Len(comps.kv[i][2].kv)}
              ELSE {} : i \in 1..Len(comps.kv)}

ComponentBody(doc, cn) == get(get(ComponentsOf(doc), Str(cn[1])), Str(cn[2]))

\* the category names under doc.components
Categories(doc) == {ComponentsOf(doc).kv[i][1].s : i \in 1..Len(ComponentsOf(doc).kv)}

RECURSIVE RefStrings(_)
\* the strings keyed "$ref" at any depth of a value
RefStrings(v) ==
    IF v.t = "map" THEN
        {v.kv[i][2].s : i \in {j \in 1..Len(v.kv) :
                                 v.kv[j][1] = Str(sRef) /\ v.kv[j][2].t = "str"}}
        \cup UNION {RefStrings(v.kv[i][2]) : i \in 1..Len(v.kv)}
    ELSE IF v.t = "seq" THEN UNION {RefStrings(v.items[i]) : i \in 1..Len(v.items)}
    ELSE {}

\* the defined components that a reference of v names
Targets(doc, v) ==
    {cn \in DefinedComponents(doc) : RefString(cn[1], cn[2]) \in RefStrings(v)}

RECURSIVE ReachableFrom(_, _)
ReachableFrom(doc, S) ==
    LET more == S \cup UNION {Targets(doc, ComponentBody(doc, cn)) : cn \in S}
    IN IF more = S THEN S ELSE ReachableFrom(doc, more)

\* the path items of the selected endpoints that the document has
SelectedPathItems(doc, sel) ==
    LET paths == get(doc, Str(sPaths))
    IN {get(paths, Str(sel[i].path)) :
           i \in {j \in 1..Len(sel) : contains_key(paths, Str(sel[j].path))}}

\* the components reachable from the selected path items by one or more references
Reachable(doc, sel) ==
    ReachableFrom(doc, UNION {Targets(doc, item) : item \in SelectedPathItems(doc, sel)})

\* the scheme names of one security requirement, in either form
RequirementNames(sec) ==
    IF sec.t = "map" THEN {sec.kv[i][1].s : i \in 1..Len(sec.kv)}
    ELSE IF sec.t = "seq" THEN
        UNION {IF sec.items[i].t = "map"
               THEN {sec.items[i].kv[j][1].s : j \in 1..Len(sec.items[i].kv)}
               ELSE {} : i \in 1..Len(sec.items)}
    ELSE {}

\* the names under the top-level "security"
TopLevelNames(doc) ==
    IF contains_key(doc, Str(sSecurity))
    THEN RequirementNames(get(doc, Str(sSecurity))) ELSE {}

\* the names under the "security" of the operations of the selected endpoints
OperationNames(doc, sel) ==
    LET OfOperation(op) ==
            UNION {RequirementNames(op.kv[j][2]) :
                      j \in {k \in 1..Len(op.kv) : op.kv[k][1] = Str(sSecurity)}}
    IN UNION {UNION {OfOperation(item.kv[i][2]) : i \in 1..Len(item.kv)} :
                 item \in SelectedPathItems(doc, sel)}

NamedSchemes(doc, sel) == OperationNames(doc, sel) \cup TopLevelNames(doc)

\* cn is in the output with the definition it has in the input
Kept(cn) ==
    /\ cn \in DefinedComponents(output)
    /\ ComponentBody(output, cn) = ComponentBody(spec, cn)

Done == pc = "done"

(***************************************************************************)
(* C1: the components kept are the defined components reachable from the   *)
(* selected path items through one or more references; a component that is *)
(* neither reachable nor a security scheme named by a security requirement *)
(* is dropped.                                                             *)
(***************************************************************************)
C1_TransitiveClosureKept ==
    Done =>
        LET reachable == Reachable(spec, selected_items)
            named == NamedSchemes(spec, selected_items)
            out == DefinedComponents(output)
        IN /\ out \subseteq DefinedComponents(spec)
           /\ \A cn \in DefinedComponents(spec) :
                 /\ cn \in reachable => Kept(cn)
                 /\ (cn \notin reachable
                        /\ ~(cn[1] = sSecuritySchemes /\ cn[2] \in named))
                    => cn \notin out

\* only A is referenced by the selection; A -> B -> C are kept and D is dropped
C1_Witness ==
    /\ Done
    /\ UNION {Targets(spec, item) : item \in SelectedPathItems(spec, selected_items)}
          = {<<sSchemas, sA>>}
    /\ <<sSchemas, sB>> \in Targets(spec, ComponentBody(spec, <<sSchemas, sA>>))
    /\ <<sSchemas, sC>> \in Targets(spec, ComponentBody(spec, <<sSchemas, sB>>))
    /\ Kept(<<sSchemas, sA>>) /\ Kept(<<sSchemas, sB>>) /\ Kept(<<sSchemas, sC>>)
    /\ <<sSchemas, sD>> \in DefinedComponents(spec) \ DefinedComponents(output)

(***************************************************************************)
(* C2: a security scheme named by the security requirement of an operation *)
(* of a selected endpoint, or by the top-level requirement, is kept even   *)
(* when no reference reaches it; a member of another category with such a  *)
(* name is kept only when it is reachable.                                 *)
(***************************************************************************)
C2_NamedSecuritySchemesKept ==
    Done =>
        LET reachable == Reachable(spec, selected_items)
            defined == DefinedComponents(spec)
            out == DefinedComponents(output)
        IN \A n \in NamedSchemes(spec, selected_items) :
              /\ <<sSecuritySchemes, n>> \in defined => Kept(<<sSecuritySchemes, n>>)
              /\ \A c \in Categories(spec) \ {sSecuritySchemes} :
                    (<<c, n>> \in defined /\ <<c, n>> \notin reachable)
                    => <<c, n>> \notin out

\* an operation names a scheme no reference reaches: the scheme is kept, the
\* schema of the same name is dropped
C2_Witness ==
    /\ Done
    /\ \E n \in OperationNames(spec, selected_items) \ TopLevelNames(spec) :
          /\ <<sSecuritySchemes, n>> \notin Reachable(spec, selected_items)
          /\ Kept(<<sSecuritySchemes, n>>)
          /\ <<sSchemas, n>> \in DefinedComponents(spec) \ DefinedComponents(output)

(***************************************************************************)
(* C3: the output has the top-level keys of the input, in the same order,  *)
(* and every key other than "paths" and "components" keeps its value.      *)
(***************************************************************************)
C3_TopLevelKeyOrderPreserved ==
    Done =>
        /\ keys(output) = keys(spec)
        /\ \A i \in 1..Len(spec.kv) :
              spec.kv[i][1] \notin {Str(sPaths), Str(sComponents)}
                 => output.kv[i] = spec.kv[i]

\* "components" comes before "paths", with other keys between and after them
C3_Witness ==
    /\ Done
    /\ Len(output.kv) = 4
    /\ output.kv[1][1] = Str(sComponents)
    /\ output.kv[2] = <<Str(sSecurity), SecurityList(sA)>>
    /\ output.kv[3][1] = Str(sPaths)
    /\ output.kv[3][2] # spec.kv[3][2]
    /\ output.kv[1][2] # spec.kv[1][2]

(***************************************************************************)
(* C4: the output "paths" holds the selected paths that the input has, in  *)
(* the order of the selection, each with the path item of the input.       *)
(***************************************************************************)
InInputPaths(item) == contains_key(get(spec, Str(sPaths)), Str(item.path))

C4_SelectedPathsCopied ==
    Done =>
        LET kept == SelectSeq(selected_items, InInputPaths)
        IN get(output, Str(sPaths)) =
              Mapping([i \in 1..Len(kept) |->
                         <<Str(kept[i].path),
                           get(get(spec, Str(sPaths)), Str(kept[i].path))>>])

\* two paths selected against the order of the document, a third path of
\* the document left out
C4_Witness ==
    /\ Done
    /\ keys(get(spec, Str(sPaths))) = <<Str(sPathA), Str(sPathB)>>
    /\ selected_items = <<SelectedEndpoint(sPathB), SelectedEndpoint(sPathA)>>
    /\ keys(get(output, Str(sPaths))) = <<Str(sPathB), Str(sPathA)>>

\* a selected path the document lacks is skipped and an unselected path dropped
C4_WitnessSkipped ==
    /\ Done
    /\ keys(get(spec, Str(sPaths))) = <<Str(sPathB), Str(sPathA)>>
    /\ selected_items = <<SelectedEndpoint(sPathC), SelectedEndpoint(sPathA)>>
    /\ keys(get(output, Str(sPaths))) = <<Str(sPathA)>>

(***************************************************************************)
(* C5: no category of the output "components" is empty; a category of the  *)
(* input is in the output exactly when one of its members is reachable or, *)
(* for "securitySchemes", named by a security requirement.                 *)
(***************************************************************************)
C5_NoEmptyCategory ==
    (Done /\ contains_key(output, Str(sComponents))) =>
        LET comps == get(output, Str(sComponents))
            reachable == Reachable(spec, selected_items)
            named == NamedSchemes(spec, selected_items)
            Survives(cn) == \/ cn \in reachable
                            \/ (cn[1] = sSecuritySchemes /\ cn[2] \in named)
        IN /\ is_mapping(comps)
           /\ \A i \in 1..Len(comps.kv) :
                 is_mapping(comps.kv[i][2]) /\ Len(comps.kv[i][2].kv) > 0
           /\ \A c \in Categories(spec) :
                 c \in Categories(output)
                    <=> \E cn \in DefinedComponents(spec) : cn[1] = c /\ Survives(cn)

\* an endpoint without a security requirement, no top-level "security": the
\* defined security schemes are all dropped and the category is omitted,
\* while "schemas" stays
C5_Witness ==
    /\ Done
    /\ ~contains_key(spec, Str(sSecurity))
    /\ Len(selected_items) > 0
    /\ OperationNames(spec, selected_items) = {}
    /\ <<sSecuritySchemes, sA>> \in DefinedComponents(spec)
    /\ sSecuritySchemes \notin Categories(output)
    /\ sSchemas \in Categories(output)

(***************************************************************************)
(* C6 as stated: with nothing selected, "paths" is empty and the output    *)
(* "components" has neither "schemas" nor "securitySchemes".               *)
(***************************************************************************)
C6_EmptySelectionDropsBoth ==
    (Done /\ selected_items = <<>>) =>
        /\ get(output, Str(sPaths)) = EmptyMap
        /\ sSchemas \notin Categories(output)
        /\ sSecuritySchemes \notin Categories(output)

(***************************************************************************)
(* C6 amended: with nothing selected, "paths" is empty, no category other  *)
(* than "securitySchemes" is in the output, and "securitySchemes" holds    *)
(* exactly the defined schemes that the top-level "security" names.        *)
(***************************************************************************)
C6_EmptySelectionKeepsTopLevelSchemes ==
    (Done /\ selected_items = <<>>) =>
        /\ get(output, Str(sPaths)) = EmptyMap
        /\ DefinedComponents(output) =
              {cn \in DefinedComponents(spec) :
                  cn[1] = sSecuritySchemes /\ cn[2] \in TopLevelNames(spec)}
        /\ Categories(output) \subseteq {sSecuritySchemes}

\* nothing selected, and the scheme of the top-level requirement is kept
C6_Witness ==
    /\ Done
    /\ selected_items = <<>>
    /\ Len(get(spec, Str(sPaths)).kv) > 0
    /\ sSchemas \in Categories(spec)
    /\ DefinedComponents(output) = {<<sSecuritySchemes, sA>>}

(***************************************************************************)
(* C7 as stated: with every endpoint selected, every member of every       *)
(* component category of the input is in the output, and the top-level key *)
(* order is that of the input.                                             *)
(***************************************************************************)
AllSelected ==
    {selected_items[i].path : i \in 1..Len(selected_items)}
       = {get(spec, Str(sPaths)).kv[i][1].s : i \in 1..Len(get(spec, Str(sPaths)).kv)}

C7_FullSelectionKeepsEveryMember ==
    (Done /\ AllSelected) =>
        /\ \A cn \in DefinedComponents(spec) : Kept(cn)
        /\ keys(output) = keys(spec)

(***************************************************************************)
(* C7 amended: with every endpoint selected, every member that some path   *)
(* item reaches through references, and every security scheme that an      *)
(* operation or the top level names, is in the output as defined, and the  *)
(* top-level key order is that of the input; "paths" is the input's.       *)
(***************************************************************************)
AllEndpoints ==
    [i \in 1..Len(get(spec, Str(sPaths)).kv) |->
        SelectedEndpoint(get(spec, Str(sPaths)).kv[i][1].s)]

C7_FullSelectionKeepsEveryUsedMember ==
    (Done /\ AllSelected) =>
        /\ \A cn \in DefinedComponents(spec) :
              (\/ cn \in Reachable(spec, AllEndpoints)
               \/ (cn[1] = sSecuritySchemes /\ cn[2] \in NamedSchemes(spec, AllEndpoints)))
              => Kept(cn)
        /\ keys(output) = keys(spec)
        /\ Range(get(output, Str(sPaths)).kv) = Range(get(spec, Str(sPaths)).kv)

\* both paths selected; a referenced chain and a named scheme are kept
C7_Witness ==
    /\ Done
    /\ AllSelected
    /\ Len(selected_items) = 2
    /\ Kept(<<sSchemas, sA>>) /\ Kept(<<sSchemas, sB>>)
    /\ Kept(<<sSecuritySchemes, sB>>)
    /\ <<sSecuritySchemes, sB>> \notin Reachable(spec, selected_items)

(***************************************************************************)
(* SpecFetch: fetch_endpoints_from_spec applied to a document at load.     *)
(***************************************************************************)
sPathUpperB == <<47, 66>>                                             \* "/B"
sPathAB == <<47, 97, 47, 98>>                                         \* "/a/b"
sPathADashB == <<47, 97, 45, 98>>                                     \* "/a-b"
sPut == <<112, 117, 116>>                                             \* "put"
sId == <<105, 100>>                                                   \* "id"
sQ == <<113>>                                                         \* "q"
sX == <<120>>                                                         \* "x"
sList == <<76, 105, 115, 116>>                                        \* "List"
sDetails == <<68, 101, 116, 97, 105, 108, 115>>                       \* "Details"

\* the most paths a loaded document has
MaxPaths == 3

PathKeys == {sPathA, sPathB, sPathAB, sPathADashB, sPathUpperB}

Parameter(name, in) == Mapping(<<Entry(sName, Str(name)), Entry(sIn, Str(in))>>)

\* the path items of the loaded documents
FetchItems ==
    <<Mapping(<<Entry(sGet, Mapping(<<Entry(sSummary, Str(sList)),
                                      Entry(sDescription, Str(sDetails)),
                                      Entry(sParameters, Sequence(<<Parameter(sId, sPath)>>)),
                                      Entry(sResponses, RefObject(RefString(sSchemas, sA)))>>))>>),
      Mapping(<<Entry(sSummary, Str(sList)), Entry(sDescription, Str(sDetails)),
                Entry(sGet, EmptyMap)>>),
      Mapping(<<Entry(sDescription, Str(sDetails)), Entry(sSummary, Str(sList)),
                Entry(sPost, Mapping(<<Entry(sRequestBody, RefObject(RefString(sSchemas, sA))),
                                       Entry(sX, Sequence(<<RefObject(RefString(sSchemas, sA)),
                                                            RefObject(RefString(sSchemas, sB)),
                                                            RefObject(sExternalRef)>>))>>))>>),
      Mapping(<<Entry(sParameters, Sequence(<<Parameter(sQ, sQuery)>>)),
                Entry(sGet, Mapping(<<Entry(sDescription, Str(sDetails))>>)),
                Entry(sPut, Str(sX))>>),
      EmptyMap,
      Mapping(<<Entry(sPost, Mapping(<<Entry(sParameters,
                     Sequence(<<Parameter(sId, sBody), Mapping(<<Entry(sName, Str(sQ))>>),
                                Str(sX)>>))>>)),
                Entry(sDescription, Str(sDetails))>>),
      Mapping(<<Entry(sSummary, Str(<<>>)), Entry(sDescription, Str(sDetails)),
                Entry(sGet, EmptyMap)>>),
      Mapping(<<Entry(sRef, Str(sShortRef)),
                Entry(sParameters, Sequence(<<RefObject(RefString(sSchemas, sC))>>)),
                Entry(sGet, Mapping(<<
                    Entry(sX, Mapping(<<Entry(sQ, RefObject(sLongRef))>>)),
                    Entry(sRef, Str(RefString(sSchemas, sB))),
                    Entry(sResponses, Sequence(<<
                        RefObject(RefString(sSchemas, sA)),
                        Sequence(<<Mapping(<<Entry(sId, RefObject(sExternalRef))>>)>>),
                        Mapping(<<Entry(sRef, Num(<<49>>))>>),
                        RefObject(sX)>>))>>)),
                Entry(sPost, RefObject(RefString(sSchemas, sB)))>>)>>

\* the lists of at most MaxPaths distinct path keys, in any order
PathKeyLists ==
    {ks \in UNION {[1..n -> PathKeys] : n \in 0..MaxPaths} :
        \A i, j \in 1..Len(ks) : i # j => ks[i] # ks[j]}

\* the i-th path of a document takes the path items in turn, from item v on
FetchDocuments ==
    {Mapping(<<Entry(sOpenapi, Str(sV3)),
               Entry(sPaths, Mapping([i \in 1..Len(ks) |->
                   Entry(ks[i], FetchItems[((v + i - 2) % Len(FetchItems)) + 1])]))>>) :
        ks \in PathKeyLists, v \in 1..Len(FetchItems)}

InitFetch ==
    /\ spec \in FetchDocuments
    /\ selected_items = <<>>
    /\ output = Null
    /\ table_items = <<>>
    /\ pc = "start"
    /\ NoSearch
    /\ NoClosure
    /\ NoRun
    /\ NoFile

\* main: model.table_items = fetch_endpoints_from_spec(&model.spec)
Load ==
    /\ pc = "start"
    /\ table_items' = fetch_endpoints_from_spec(spec)
    /\ pc' = "loaded"
    /\ UNCHANGED <<spec, selected_items, output, searchVars>>
    /\ UNCHANGED <<closureVars, runVars, fileVars>>

NextFetch == Load

SpecFetch == InitFetch /\ [][NextFetch]_vars

Loaded == pc = "loaded"

\* a < b byte-wise: b continues a, or the first byte that differs is less in a
BytewiseLess(a, b) ==
    \E k \in 1..Len(b) :
        /\ \A m \in 1..(k - 1) : m <= Len(a) /\ a[m] = b[m]
        /\ (k = Len(a) + 1 \/ (k <= Len(a) /\ a[k] < b[k]))

(***************************************************************************)
(* C8: a document with N path keys gives N endpoints, one per key, with    *)
(* distinct paths in ascending byte-wise order; the paths of the endpoints *)
(* are the keys of document.paths.                                         *)
(***************************************************************************)
C8_OneEndpointPerPathSorted ==
    Loaded =>
        LET paths == get(spec, Str(sPaths))
        IN /\ Len(table_items) = Len(paths.kv)
           /\ \A i, j \in 1..Len(table_items) :
                 i < j => BytewiseLess(table_items[i].path, table_items[j].path)
           /\ {table_items[i].path : i \in 1..Len(table_items)}
                 = {paths.kv[i][1].s : i \in 1..Len(paths.kv)}

\* three paths listed in descending order, "/a-b" before "/a/b" after the sort
C8_Witness ==
    /\ Loaded
    /\ keys(get(spec, Str(sPaths))) = <<Str(sPathB), Str(sPathAB), Str(sPathADashB)>>
    /\ [i \in 1..Len(table_items) |-> table_items[i].path]
          = <<sPathADashB, sPathAB, sPathB>>

(***************************************************************************)
(* handle_key (event.rs): the message of a key press.  A key is a record   *)
(* [code, ch, ctrl]: ch is the character of KeyCode::Char, ctrl whether    *)
(* the modifiers contain CONTROL.                                          *)
(***************************************************************************)
Key(code) == [code |-> code, ch |-> "", ctrl |-> FALSE]
Char(c) == [code |-> "Char", ch |-> c, ctrl |-> FALSE]
Ctrl(c) == [code |-> "Char", ch |-> c, ctrl |-> TRUE]

Keys ==
    {Char(" "), Char("/"), Char("q"), Char("w"), Ctrl("u"),
     Key("Esc"), Key("Up"), Key("Down"), Key("PageDown"), Key("PageUp"),
     Key("Home"), Key("End"), Key("Enter"), Key("Backspace")}

\* the keys mean what they mean outside a search, whatever the mode
handle_key_modeless(key, active) ==
    IF key.code = "Char" /\ key.ch = " " THEN "ToggleSelectItemAndSelectNext"
    ELSE IF key.code = "Char" /\ key.ch = "/" THEN "ShowSearch"
    ELSE IF key.code = "Char" /\ key.ch = "q" THEN "Quit"
    ELSE IF key.code = "Char" /\ key.ch = "w" THEN "WriteAndQuit"
    ELSE IF key.code = "Esc" THEN "HideSearch"
    ELSE IF key.code = "Char" /\ key.ch = "u" /\ key.ctrl /\ active THEN "ClearSearch"
    ELSE IF active /\ key.code \in {"Char", "Backspace"} THEN "KeyPress"
    ELSE "None"

\* the message, "None" for no message; "KeyPress" carries the key itself
handle_key(key, active) ==
    IF active THEN
        IF key.code = "Char" /\ key.ch = "u" /\ key.ctrl THEN "ClearSearch"
        ELSE IF key.code = "Esc" THEN "HideSearch"
        ELSE IF key.code = "Char" /\ key.ch = " " THEN "ToggleSelectItemAndSelectNext"
        ELSE IF key.code = "Up" THEN "SelectPrevious"
        ELSE IF key.code = "Down" THEN "SelectNext"
        ELSE IF key.code = "PageDown" THEN "SelectNextPage"
        ELSE IF key.code = "PageUp" THEN "SelectPreviousPage"
        ELSE IF key.code = "Home" THEN "GoToTop"
        ELSE IF key.code = "Enter" THEN "None"
        ELSE "KeyPress"
    ELSE
        IF key.code = "Char" /\ key.ch = " " THEN "ToggleSelectItemAndSelectNext"
        ELSE IF key.code = "Char" /\ key.ch = "/" THEN "ShowSearch"
        ELSE IF key.code = "Char" /\ key.ch = "j" THEN "SelectNext"
        ELSE IF key.code = "Char" /\ key.ch = "k" THEN "SelectPrevious"
        ELSE IF key.code = "Char" /\ key.ch = "q" THEN "Quit"
        ELSE IF key.code = "Char" /\ key.ch = "w" THEN "WriteAndQuit"
        ELSE IF key.code = "Up" THEN "SelectPrevious"
        ELSE IF key.code = "Down" THEN "SelectNext"
        ELSE IF key.code = "Esc" THEN "HideSearch"
        ELSE IF key.code = "PageDown" THEN "SelectNextPage"
        ELSE IF key.code = "PageUp" THEN "SelectPreviousPage"
        ELSE IF key.code = "Home" THEN "GoToTop"
        ELSE IF key.code = "End" THEN "GoToBottom"
        ELSE "None"

\* some key gives the message in the present mode
Pressed(msg) == \E key \in Keys : handle_key(key, search_active) = msg

(***************************************************************************)
(* The search session.  The code that handles the search messages is not   *)
(* among the sources; the operations follow the design of the search       *)
(* filter: enter, update, toggle_during_search, exit, repair_selection.    *)
(***************************************************************************)
\* the longest query typed
MaxQuery == 1
\* the best score the fuzzy matcher gives a path or a description
MaxScore == 1

\* the byte a character key types
CharByte(ch) ==
    CASE ch = "/" -> 47 [] ch = "j" -> 106 [] ch = "k" -> 107 [] ch = "q" -> 113
      [] ch = "u" -> 117 [] ch = "w" -> 119 [] OTHER -> 32

\* the text of the search input after a key: a character is appended,
\* Backspace removes the last one, any other key leaves the text
TextInput(text, key) ==
    IF key.code = "Char" /\ ~key.ctrl THEN Append(text, CharByte(key.ch))
    ELSE IF key.code = "Backspace" /\ Len(text) > 0 THEN SubSeq(text, 1, Len(text) - 1)
    ELSE text

Flip(status) == IF status = "Selected" THEN "Unselected" ELSE "Selected"

\* Selected before Unselected, then ascending path
SelectedFirstLess(a, b) ==
    \/ (a.status = "Selected" /\ b.status = "Unselected")
    \/ (a.status = b.status /\ str_lt(a.path, b.path))

RECURSIVE InsertSelectedFirst(_, _)
InsertSelectedFirst(sorted, item) ==
    IF Len(sorted) = 0 THEN <<item>>
    ELSE IF SelectedFirstLess(item, sorted[1]) THEN <<item>> \o sorted
    ELSE <<sorted[1]>> \o InsertSelectedFirst(Tail(sorted), item)

RECURSIVE sort_selected_first(_)
\* the Selected-first / path-ascending order of a list
sort_selected_first(items) ==
    IF Len(items) = 0 THEN <<>>
    ELSE InsertSelectedFirst(sort_selected_first(SubSeq(items, 1, Len(items) - 1)),
                             items[Len(items)])

\* what the fuzzy matcher may answer for a text: 0 for no match, else the score;
\* a text of no characters matches no query of some characters
MatcherScores(haystack) == IF Len(haystack) = 0 THEN {0} ELSE 0..MaxScore

\* the answers of the matcher for the paths and descriptions of a list
MatcherAnswers(items) ==
    LET described == {i \in 1..Len(items) : MatcherScores(items[i].description) # {0}}
    IN {[i \in 1..Len(items) |->
            [path |-> paths[i], desc |-> IF i \in described THEN descs[i] ELSE 0]] :
        paths \in [1..Len(items) -> 0..MaxScore],
        descs \in [described -> 0..MaxScore]}

\* 2*pathScore + descScore, 2*pathScore, descScore; 0 when neither matches
Score(answer) == 2 * answer.path + answer.desc

RECURSIVE InsertByScore(_, _)
\* scored = <<item, score>>: Selected before Unselected, then descending score
InsertByScore(sorted, scored) ==
    IF Len(sorted) = 0 THEN <<scored>>
    ELSE IF \/ (scored[1].status = "Selected" /\ sorted[1][1].status = "Unselected")
            \/ (scored[1].status = sorted[1][1].status /\ scored[2] > sorted[1][2])
         THEN <<scored>> \o sorted
    ELSE <<sorted[1]>> \o InsertByScore(Tail(sorted), scored)

RECURSIVE SortByScore(_)
SortByScore(scored) ==
    IF Len(scored) = 0 THEN <<>>
    ELSE InsertByScore(SortByScore(SubSeq(scored, 1, Len(scored) - 1)),
                       scored[Len(scored)])

\* update(query) with the full list left in the order of the backup for ""
update_backup_order(full, text, answers) ==
    IF Len(text) = 0 THEN full
    ELSE LET matching == SelectSeq([i \in 1..Len(full) |-> <<full[i], Score(answers[i])>>],
                                   LAMBDA scored : scored[2] > 0)
             sorted == SortByScore(matching)
         IN [i \in 1..Len(sorted) |-> sorted[i][1]]

\* update(query): the view of the backup list under the matcher's answers,
\* answers[i] being those for the i-th backup entry; the full list for ""
update(full, text, answers) ==
    IF Len(text) = 0 THEN sort_selected_first(full)
    ELSE LET matching == SelectSeq([i \in 1..Len(full) |-> <<full[i], Score(answers[i])>>],
                                   LAMBDA scored : scored[2] > 0)
             sorted == SortByScore(matching)
         IN [i \in 1..Len(sorted) |-> sorted[i][1]]

\* the path under the cursor, if any
CursorPath(items, cur) ==
    IF cur.some /\ cur.v < Len(items) THEN Some(items[cur.v + 1].path) ELSE None

\* repair_selection(previous_path): the cursor for a new list
repair_selection(previous_path, items) ==
    IF previous_path.some /\ \E i \in 1..Len(items) : items[i].path = previous_path.v
    THEN [some |-> TRUE,
          v |-> (CHOOSE i \in 1..Len(items) : items[i].path = previous_path.v) - 1]
    ELSE IF Len(items) > 0 THEN [some |-> TRUE, v |-> 0]
    ELSE NoIndex

\* the entries of a list with the status of the entry of that path flipped
FlipPath(items, path) ==
    [i \in 1..Len(items) |->
        IF items[i].path = path THEN [items[i] EXCEPT !.status = Flip(@)]
        ELSE items[i]]

\* the list is a view that a query has narrowed
Narrowed == search_active /\ Len(query) > 0 /\ Len(table_items) < Len(backup.v)

\* the message handled last, whether the list it met was narrowed, and whether
\* an entry of a narrowed view has been toggled since the full list was last shown
Handled(msg, toggles) ==
    [msg |-> msg,
     narrowed |-> Narrowed,
     toggled |-> \/ (toggles /\ Narrowed)
                 \/ (last_msg.toggled /\ last_msg.msg \notin {"ClearSearch", "HideSearch"})]

\* toggle_during_search(index) on the visible list only
toggle_during_search_visible_only(visible, full, index) ==
    [visible |-> FlipPath(visible, visible[index + 1].path), backup |-> full]

\* toggle_during_search(index): the visible entry and the backup entry of its path
toggle_during_search(visible, full, index) ==
    [visible |-> FlipPath(visible, visible[index + 1].path),
     backup |-> FlipPath(full, visible[index + 1].path)]

\* enter(): the first session snapshots the full list
ShowSearch ==
    /\ Pressed("ShowSearch")
    /\ backup' = IF backup.some THEN backup ELSE [some |-> TRUE, v |-> table_items]
    /\ search_active' = TRUE
    /\ query' = <<>>
    /\ last_msg' = Handled("ShowSearch", FALSE)
    /\ UNCHANGED <<spec, selected_items, output, table_items, pc, cursor>>
    /\ UNCHANGED <<closureVars, runVars, fileVars>>

\* a key typed into the search input, then update(query)
KeyPress ==
    /\ \E key \in Keys :
          /\ handle_key(key, search_active) = "KeyPress"
          /\ query' = TextInput(query, key)
    /\ Len(query') <= MaxQuery
    /\ \E answers \in MatcherAnswers(backup.v) :
          table_items' = update(backup.v, query', answers)
    /\ cursor' = repair_selection(CursorPath(table_items, cursor), table_items')
    /\ last_msg' = Handled("KeyPress", FALSE)
    /\ UNCHANGED <<spec, selected_items, output, pc, search_active, backup>>
    /\ UNCHANGED <<closureVars, runVars, fileVars>>

\* the query cleared, then update("")
ClearSearch ==
    /\ Pressed("ClearSearch")
    /\ query' = <<>>
    /\ table_items' = update(backup.v, <<>>, <<>>)
    /\ cursor' = repair_selection(CursorPath(table_items, cursor), table_items')
    /\ last_msg' = Handled("ClearSearch", FALSE)
    /\ UNCHANGED <<spec, selected_items, output, pc, search_active, backup>>
    /\ UNCHANGED <<closureVars, runVars, fileVars>>

\* exit(): the full list restored from the backup, which is retained
HideSearch ==
    /\ Pressed("HideSearch")
    /\ search_active' = FALSE
    /\ query' = <<>>
    /\ table_items' = IF backup.some THEN sort_selected_first(backup.v) ELSE table_items
    /\ cursor' = repair_selection(CursorPath(table_items, cursor), table_items')
    /\ last_msg' = Handled("HideSearch", FALSE)
    /\ UNCHANGED <<spec, selected_items, output, pc, backup>>
    /\ UNCHANGED <<closureVars, runVars, fileVars>>

\* toggle_during_search(index), then the cursor moves to the next row
ToggleDuringSearch ==
    /\ search_active
    /\ Pressed("ToggleSelectItemAndSelectNext")
    /\ IF cursor.some /\ cursor.v < Len(table_items)
       THEN LET toggled == toggle_during_search(table_items, backup.v, cursor.v)
            IN /\ table_items' = toggled.visible
               /\ backup' = [backup EXCEPT !.v = toggled.backup]
               /\ cursor' = IF cursor.v + 1 < Len(table_items)
                            THEN [cursor EXCEPT !.v = @ + 1] ELSE cursor
       ELSE UNCHANGED <<table_items, backup, cursor>>
    /\ last_msg' = Handled("ToggleSelectItemAndSelectNext",
                           cursor.some /\ cursor.v < Len(table_items))
    /\ UNCHANGED <<spec, selected_items, output, pc, search_active, query>>
    /\ UNCHANGED <<closureVars, runVars, fileVars>>

\* the document of the search sessions: two paths, one of them described
SearchDocument ==
    Mapping(<<Entry(sPaths, Mapping(<<Entry(sPathB, FetchItems[1]),
                                      Entry(sPathA, FetchItems[2])>>))>>)

\* the list after some toggles outside a search: any statuses, Selected first
InitSearch ==
    /\ spec = SearchDocument
    /\ selected_items = <<>>
    /\ output = Null
    /\ \E statuses \in [1..Len(fetch_endpoints_from_spec(spec)) -> {"Selected", "Unselected"}] :
          table_items = sort_selected_first(
              [i \in 1..Len(statuses) |->
                  [fetch_endpoints_from_spec(spec)[i] EXCEPT !.status = statuses[i]]])
    /\ pc = "running"
    /\ cursor \in {[some |-> TRUE, v |-> i] : i \in 0..(Len(table_items) - 1)}
    /\ search_active = FALSE
    /\ query = <<>>
    /\ backup = NoBackup
    /\ last_msg = NoMessage
    /\ NoClosure
    /\ NoRun
    /\ NoFile

NextSearch ==
    \/ ShowSearch
    \/ KeyPress
    \/ ClearSearch
    \/ HideSearch
    \/ ToggleDuringSearch

SpecSearch == InitSearch /\ [][NextSearch]_vars

(***************************************************************************)
(* Search sessions: what the claims speak of.                              *)
(***************************************************************************)
HasPath(items, path) == \E i \in 1..Len(items) : items[i].path = path

StatusIn(items, path) == items[CHOOSE i \in 1..Len(items) : items[i].path = path].status

PathsIn(items) == {items[i].path : i \in 1..Len(items)}

\* every entry of the view is the backup entry of its path
ViewOfBackup ==
    \A i \in 1..Len(table_items) :
        \E j \in 1..Len(backup.v) : table_items[i] = backup.v[j]

\* the view shows every backup entry, once
FullList ==
    /\ Len(table_items) = Len(backup.v)
    /\ \A j \in 1..Len(backup.v) : \E i \in 1..Len(table_items) : table_items[i] = backup.v[j]

\* a toggle of a visible entry has just been handled
ToggleStep ==
    /\ search_active /\ cursor.some /\ cursor.v < Len(table_items)
    /\ last_msg'.msg = "ToggleSelectItemAndSelectNext"

\* C9: in any sequence of search enter / update / toggle / clear / exit, a
\* toggle of a visible entry flips the backup entry of the same path and no
\* other, nothing but a toggle changes an existing backup, every visible
\* entry is the backup entry of its path, and with no query (the filter
\* cleared, the search exited) the list shows every backup entry: no toggle
\* is lost or reverted.
C9_ToggleWrittenThrough ==
    /\ [][/\ ToggleStep =>
               LET path == table_items[cursor.v + 1].path
               IN /\ StatusIn(backup'.v, path) = Flip(StatusIn(backup.v, path))
                  /\ StatusIn(table_items', path) = StatusIn(backup'.v, path)
                  /\ \A other \in PathsIn(backup.v) \ {path} :
                        StatusIn(backup'.v, other) = StatusIn(backup.v, other)
           /\ (backup.some /\ ~ToggleStep) => backup' = backup]_vars
    /\ [](backup.some => /\ ViewOfBackup
                         /\ (Len(query) = 0 => FullList))

\* an entry of a narrowed view was toggled, then the filter was cleared or the
\* search exited from a narrowed view, and the full list shows the toggle
C9_Witness ==
    /\ last_msg.msg \in {"ClearSearch", "HideSearch"}
    /\ last_msg.toggled
    /\ last_msg.narrowed
    /\ backup.some /\ FullList
    /\ \E i \in 1..Len(table_items) : table_items[i].status = "Selected"

\* a before b: Selected before Unselected, then the path bytewise ascending
SelectedFirstBefore(a, b) ==
    \/ (a.status = "Selected" /\ b.status = "Unselected")
    \/ (a.status = b.status /\ BytewiseLess(a.path, b.path))

\* update("") has just run
UpdatedEmpty == last_msg.msg \in {"KeyPress", "ClearSearch"} /\ Len(query) = 0

\* C10: after update("") the visible list is the full backup list, every
\* endpoint present with the status the backup has for it, in
\* Selected-before-Unselected then path-ascending order.
C10_EmptyQueryRestoresFullList ==
    UpdatedEmpty =>
        /\ FullList
        /\ \A i, j \in 1..Len(table_items) :
              i < j => SelectedFirstBefore(table_items[i], table_items[j])

\* update("") met a narrowed view of a backup that toggles had left out of
\* order, and re-applied the order
C10_Witness ==
    /\ UpdatedEmpty
    /\ last_msg.narrowed
    /\ Len(table_items) > 1
    /\ table_items # backup.v

(***************************************************************************)
(* Loaded endpoints: what the claims speak of.                             *)
(***************************************************************************)
\* the path item of a loaded endpoint
PathItemOf(item) == get(get(spec, Str(sPaths)), Str(item.path))

\* the reserved path-level keys
ReservedKeys == {sSummary, sDescription, sParameters}

\* the keys of a mapping that satisfy Test, in key order
KeysWhere(m, Test(_)) ==
    LET all == [i \in 1..Len(m.kv) |-> m.kv[i][1].s]
    IN SelectSeq(all, Test)

\* C18: the methods of an endpoint are its path item's keys other than
\* "summary", "description" and "parameters", one Method per key, in key order.
C18_OneMethodPerVerbKey ==
    Loaded =>
        \A i \in 1..Len(table_items) :
            [j \in 1..Len(table_items[i].methods) |-> table_items[i].methods[j].method]
                = KeysWhere(PathItemOf(table_items[i]), LAMBDA k : k \notin ReservedKeys)

\* C19: an endpoint whose path item has a "summary" has that summary (the
\* empty text when it is no string) as description, wherever "description"
\* stands and whatever it holds.
C19_SummaryTakesPrecedence ==
    Loaded =>
        \A i \in 1..Len(table_items) :
            LET ops == PathItemOf(table_items[i])
            IN contains_key(ops, Str(sSummary)) =>
                   table_items[i].description = str_or_empty(get(ops, Str(sSummary)))

RECURSIVE RefOccurrences(_, _)
\* the strings keyed "$ref" in a value found at position at, each with the
\* position of the mapping that holds it: the indices of the members on the
\* way down to it
RefOccurrences(v, at) ==
    IF v.t = "map" THEN
        {<<at, v.kv[i][2].s>> : i \in {j \in 1..Len(v.kv) :
                                    v.kv[j][1] = Str(sRef) /\ v.kv[j][2].t = "str"}}
        \cup UNION {RefOccurrences(v.kv[i][2], Append(at, i)) : i \in 1..Len(v.kv)}
    ELSE IF v.t = "seq" THEN
        UNION {RefOccurrences(v.items[i], Append(at, i)) : i \in 1..Len(v.items)}
    ELSE {}

\* the occurrences in the subtrees under the keys of a path item
OperationRefs(ops) == {occ \in RefOccurrences(ops, <<>>) : Len(occ[1]) > 0}

\* the part of a string after its last "/", the whole of it when it has none
TrailingSegment(str) ==
    LET cut == {i \in 1..Len(str) : str[i] = 47}
        last == IF cut = {} THEN 0 ELSE CHOOSE i \in cut : \A j \in cut : j <= i
    IN SubSeq(str, last + 1, Len(str))

\* the first occurrence of a name is the one no other of that name precedes;
\* a mapping precedes what it holds, a member those after it
FirstOccurrence(occs, name) ==
    CHOOSE occ \in occs :
        /\ TrailingSegment(occ[2]) = name
        /\ \A other \in occs :
              TrailingSegment(other[2]) = name /\ other # occ
                  => BytewiseLess(occ[1], other[1])

\* C20: the refs of an endpoint are the trailing segments of the "$ref"
\* strings at any depth under the keys of its path item, each once, in the
\* order of their first occurrences.
C20_RefsAreTrailingSegments ==
    Loaded =>
        \A i \in 1..Len(table_items) :
            LET refs == table_items[i].refs
                occs == OperationRefs(PathItemOf(table_items[i]))
            IN /\ Range(refs) = {TrailingSegment(occ[2]) : occ \in occs}
               /\ \A j, k \in 1..Len(refs) : j # k => refs[j] # refs[k]
               /\ \A j, k \in 1..Len(refs) :
                     j < k => BytewiseLess(FirstOccurrence(occs, refs[j])[1],
                                           FirstOccurrence(occs, refs[k])[1])

\* references in sequences of sequences and beside other keys, a name met
\* twice, a string with no "/"
C20_Witness ==
    /\ Loaded
    /\ \E i \in 1..Len(table_items) :
          /\ Len(table_items[i].refs) > 3
          /\ Cardinality(OperationRefs(PathItemOf(table_items[i])))
                > Len(table_items[i].refs)
          /\ \E j \in 1..Len(table_items[i].refs) : table_items[i].refs[j] = sX

(***************************************************************************)
(* SpecClosure: process_spec_for_output with the work-list loop of         *)
(* collect_transitive_references taken one iteration at a time.            *)
(***************************************************************************)
\* documents with a "schemas" section only, or with no components at all
ClosureDocuments ==
    {Mapping(<<Entry(sOpenapi, Str(sV3)), Entry(sPaths, p),
               Entry(sComponents, Mapping(<<Entry(sSchemas, s)>>))>>) :
        p \in PathsMappings, s \in SchemasSections}
    \cup {Mapping(<<Entry(sInfo, EmptyMap), Entry(sPaths, p), Entry(sComponents, Null)>>) :
        p \in PathsMappings}

\* "components", or the empty mapping (spec_processor.rs:293-297)
ComponentsMapping(doc) ==
    LET comps == get_opt(doc, Str(sComponents))
    IN IF comps.some /\ is_mapping(comps.v) THEN comps.v ELSE Mapping(<<>>)

\* before the call: no document and no selection yet
InitClosure ==
    /\ spec = Null
    /\ selected_items = <<>>
    /\ output = Null
    /\ table_items = <<>>
    /\ pc = "ready"
    /\ NoSearch
    /\ NoClosure
    /\ NoRun
    /\ NoFile

\* process_spec_for_output is called with a document and a selection; "Parse
\* initial references": the seeds enter the set and the work list
SeedClosure ==
    /\ pc = "ready"
    /\ \E document \in ClosureDocuments, selection \in Selections :
          /\ spec' = document
          /\ selected_items' = selection
          /\ LET st == InsertRefs(InitialRefs(get(document, Str(sPaths)), selection), 1,
                                  [all_refs |-> {}, to_process |-> <<>>])
             IN /\ all_refs' = st.all_refs
                /\ to_process' = st.to_process
                /\ pushed' = st.to_process
    /\ pc' = "closing"
    /\ UNCHANGED <<output, table_items, searchVars, runVars, fileVars>>

\* one iteration of "while let Some(..) = to_process.pop()"
StepClosure ==
    /\ pc = "closing"
    /\ Len(to_process) > 0
    /\ LET st == ProcessOne(ComponentsMapping(spec),
                            [all_refs |-> all_refs, to_process |-> to_process])
       IN /\ all_refs' = st.all_refs
          /\ to_process' = st.to_process
          /\ pushed' = pushed \o SubSeq(st.to_process, Len(to_process), Len(st.to_process))
    /\ UNCHANGED <<spec, selected_items, output, table_items, pc, searchVars, runVars, fileVars>>

\* the work list is empty: the set is returned and the output assembled
FinishClosure ==
    /\ pc = "closing"
    /\ Len(to_process) = 0
    /\ output' = AssembleOutput(spec,
                     SelectedPaths(get(spec, Str(sPaths)), selected_items, Mapping(<<>>)),
                     all_refs,
                     SecuritySchemes(spec, get(spec, Str(sPaths)), selected_items))
    /\ pc' = "done"
    /\ UNCHANGED <<spec, selected_items, table_items, searchVars, closureVars, runVars, fileVars>>

NextClosure ==
    \/ SeedClosure
    \/ StepClosure
    \/ FinishClosure

SpecClosure == InitClosure /\ [][NextClosure]_vars

\* the call runs on while it can, nothing outside it has to happen first:
\* weak fairness of NextClosure, which is enabled in every state but "done",
\* written with that condition in place of ENABLED <<NextClosure>>_vars
SpecClosureFair ==
    SpecClosure /\ ([]<>(pc = "done") \/ []<><<pc # "done">>_vars)

(***************************************************************************)
(* The closure: what the claims speak of.                                  *)
(***************************************************************************)
HasSlash(str) == \E i \in 1..Len(str) : str[i] = 47

\* the "$ref" strings of the selected path items and of every defined component
DocumentRefStrings ==
    UNION {RefStrings(item) : item \in SelectedPathItems(spec, selected_items)}
    \cup UNION {RefStrings(ComponentBody(spec, cn)) : cn \in DefinedComponents(spec)}

\* C15: a pair of the closure set comes from a reference string of the exact
\* shape "#/components/<category>/<name>", four segments: neither its
\* category nor its name holds a "/".
C15_OnlyExactShapeContributes ==
    pc # "ready" => \A key \in all_refs :
        /\ RefString(key[1], key[2]) \in DocumentRefStrings
        /\ ~HasSlash(key[1])
        /\ ~HasSlash(key[2])

NoDuplicates(xs) == \A i, j \in 1..Len(xs) : i # j => xs[i] # xs[j]

\* C16: the closure ends for every document, cyclic ones included, with the
\* output assembled, and no pair is pushed on the work list twice.
C16_ClosureTerminates ==
    /\ <>(pc = "done" /\ output # Null)
    /\ [](NoDuplicates(pushed) /\ Range(to_process) \subseteq all_refs)

\* a component that refers to itself or to one that refers back has been
\* expanded, and the closure has ended
C16_Witness ==
    /\ pc = "done"
    /\ \E cn \in all_refs \cap DefinedComponents(spec) :
          \E other \in Targets(spec, ComponentBody(spec, cn)) :
              cn \in Targets(spec, ComponentBody(spec, other))

\* C17 as stated: the visited set only grows, every pair in it names a
\* definition under "components", so the definitions bound its size.
C17_VisitedWithinDefinitions ==
    /\ [][all_refs \subseteq all_refs']_vars
    /\ [](/\ all_refs \subseteq DefinedComponents(spec)
          /\ Cardinality(all_refs) <= Cardinality(DefinedComponents(spec)))

\* the pairs that the "#/components/..." reference strings of the document name
NamedPairs ==
    {key \in UNION {{<<SubSeq(r, Len(sRefPrefix) + 1, k - 1), SubSeq(r, k + 1, Len(r))>> :
                        k \in {i \in (Len(sRefPrefix) + 1)..Len(r) : r[i] = 47}} :
                    r \in {s \in DocumentRefStrings : starts_with(s, sRefPrefix)}} :
        ~HasSlash(key[1])}

\* C17, amended: the visited set only grows, every pair in it is named by a
\* "#/components/..." reference string of a selected path item or of a
\* defined component, so those strings bound its size; a pair that names no
\* definition is in the set and is never expanded.
C17_VisitedWithinReferences ==
    /\ [][all_refs \subseteq all_refs']_vars
    /\ [](/\ all_refs \subseteq NamedPairs
          /\ Cardinality(all_refs) <= Cardinality(NamedPairs))

\* the closure has ended with a pair in the set that names no definition
C17_Witness ==
    /\ pc = "done"
    /\ Cardinality(all_refs) > 1
    /\ \E key \in all_refs : key \notin DefinedComponents(spec)
    /\ \E key \in all_refs : key \in DefinedComponents(spec)

(***************************************************************************)
(* read_spec and write_spec (file.rs)                                      *)
(***************************************************************************)
sJson == <<106, 115, 111, 110>>                                       \* "json"
sYaml == <<121, 97, 109, 108>>                                        \* "yaml"
sYml == <<121, 109, 108>>                                             \* "yml"

\* str::to_lowercase, of the bytes of ASCII text
to_lowercase(str) == [i \in 1..Len(str) |-> IF str[i] \in 65..90 THEN str[i] + 32 ELSE str[i]]

\* Path::file_name of a path that does not end in "/": its last component,
\* None for "" and ".."
file_name(path) ==
    LET parts == split(path)
        last == parts[Len(parts)]
    IN IF Len(last) = 0 \/ last = <<46, 46>> THEN None ELSE Some(last)

\* Path::extension: the part of the file name after its last ".", None when
\* there is no "." or none but the first byte
extension(path) ==
    LET name == file_name(path)
    IN IF ~name.some THEN None
       ELSE LET dots == {i \in 1..Len(name.v) : name.v[i] = 46}
                dot == IF dots = {} THEN 0 ELSE CHOOSE i \in dots : \A j \in dots : j <= i
            IN IF dot <= 1 THEN None
               ELSE Some(SubSeq(name.v, dot + 1, Len(name.v)))

\* the extension as it is written, in whatever case
extension_as_written(path) ==
    extension(path)

\* .extension().and_then(|ext| ext.to_str()).map(|ext| ext.to_lowercase())
extension_lowercase(path) ==
    LET ext == extension(path)
    IN IF ext.some THEN Some(to_lowercase(ext.v)) ELSE None

Ok(v) == [ok |-> TRUE, err |-> "", v |-> v]
Err(e) == [ok |-> FALSE, err |-> e, v |-> Null]

\* read_spec: content is what the file system and the parsers make of the
\* file, [readable, json, yaml], json and yaml the Option of the parsed value;
\* the YAML text written for a parsed JSON value parses back to that value
read_spec(path, content) ==
    IF ~content.readable THEN Err("io")
    ELSE LET ext == extension_lowercase(path)
         IN IF ext = Some(sJson) THEN
                IF ~content.json.some THEN Err("parse")
                ELSE IF is_mapping(content.json.v) THEN Ok(content.json.v)
                ELSE Err("JSON did not convert to a YAML mapping")
            ELSE IF ext = Some(sYaml) \/ ext = Some(sYml) THEN
                IF ~content.yaml.some THEN Err("parse")
                ELSE IF is_mapping(content.yaml.v) THEN Ok(content.yaml.v)
                ELSE Err("YAML did not parse to a mapping")
            ELSE Err("Unsupported file format. Please use .json, .yaml, or .yml files")

\* write_spec up to fs::write: the Option of the content to write, of a
\* mapping that both formats can hold
output_content(path, mapping) ==
    LET ext == extension_lowercase(path)
    IN IF ext = Some(sJson) THEN Some([format |-> "json", doc |-> mapping])
       ELSE IF ext = Some(sYaml) \/ ext = Some(sYml)
            THEN Some([format |-> "yaml", doc |-> mapping])
       ELSE None

(***************************************************************************)
(* SpecFile: read_spec or write_spec called with a path.                   *)
(***************************************************************************)
sStemA == <<97>>                                                      \* "a"
sStemDotted == <<97, 46, 98>>                                         \* "a.b"
sStemInDir == <<100, 46, 106, 115, 111, 110, 47, 97>>                 \* "d.json/a"
sStemParent == <<46, 46>>                                             \* ".."
sDotJson == <<46, 106, 115, 111, 110>>                                \* ".json"
sDotJsonUpper == <<46, 74, 83, 79, 78>>                               \* ".JSON"
sDotJsonMixed == <<46, 74, 115, 111, 110>>                            \* ".Json"
sDotYaml == <<46, 121, 97, 109, 108>>                                 \* ".yaml"
sDotYamlUpper == <<46, 89, 65, 77, 76>>                               \* ".YAML"
sDotYml == <<46, 121, 109, 108>>                                      \* ".yml"
sDotYmlMixed == <<46, 121, 77, 108>>                                  \* ".yMl"
sDotTxt == <<46, 116, 120, 116>>                                      \* ".txt"
sDotJsonx == <<46, 106, 115, 111, 110, 120>>                          \* ".jsonx"
sDotYam == <<46, 121, 97, 109>>                                       \* ".yam"
sDot == <<46>>                                                        \* "."

\* file names with and without a stem, in and out of a directory whose name
\* has a "."
FilePaths ==
    {stem \o suffix :
        stem \in {<<>>, sStemA, sStemDotted, sStemInDir, sStemParent},
        suffix \in {<<>>, sDotJson, sDotJsonUpper, sDotJsonMixed, sDotYaml, sDotYamlUpper,
                    sDotYml, sDotYmlMixed, sDotTxt, sDotJsonx, sDotYam, sDot}}

\* the documents read and written
FileDocuments ==
    {EmptyMap, Mapping(<<Entry(sOpenapi, Str(sV3)), Entry(sPaths, EmptyMap)>>)}

\* what a file may hold: nothing readable, text that is neither format, a
\* scalar or a sequence in both, a mapping in YAML only, a mapping in both
FileContents ==
    {[readable |-> FALSE, json |-> None, yaml |-> None],
     [readable |-> TRUE, json |-> None, yaml |-> None],
     [readable |-> TRUE, json |-> Some(Str(sV3)), yaml |-> Some(Str(sV3))],
     [readable |-> TRUE, json |-> Some(Sequence(<<>>)), yaml |-> Some(Sequence(<<>>))]}
    \cup {[readable |-> TRUE, json |-> None, yaml |-> Some(d)] : d \in FileDocuments}
    \cup {[readable |-> TRUE, json |-> Some(d), yaml |-> Some(d)] : d \in FileDocuments}

InitFile ==
    /\ spec \in FileDocuments
    /\ selected_items = <<>>
    /\ output = Null
    /\ table_items = <<>>
    /\ pc = "idle"
    /\ NoSearch
    /\ NoClosure
    /\ input \in FileContents
    /\ running_state = "Running"
    /\ exit_code = NoExit
    /\ frames = 0
    /\ events = 0
    /\ writes = 0
    /\ stderr = <<>>
    /\ disk = Null
    /\ file_path \in FilePaths
    /\ result = NoResult

\* read_spec(file_path)
ReadSpec ==
    /\ pc = "idle"
    /\ result' = read_spec(file_path, input)
    /\ pc' = "read"
    /\ UNCHANGED <<spec, selected_items, output, table_items, searchVars, closureVars,
                   runVars, file_path>>

\* write_spec(file_path, spec); fs::write succeeds or fails
WriteSpec ==
    /\ pc = "idle"
    /\ LET content == output_content(file_path, spec)
       IN IF ~content.some
          THEN /\ result' = Err("Unsupported output format. Please use .json, .yaml, or .yml files")
               /\ UNCHANGED <<writes, disk>>
          ELSE /\ writes' = writes + 1
               /\ \E written \in BOOLEAN :
                     /\ disk' = IF written THEN content.v ELSE disk
                     /\ result' = IF written THEN Ok(Null) ELSE Err("io")
    /\ pc' = "written"
    /\ UNCHANGED <<spec, selected_items, output, table_items, searchVars, closureVars,
                   input, running_state, exit_code, frames, events, stderr, file_path>>

NextFile ==
    \/ ReadSpec
    \/ WriteSpec

SpecFile == InitFile /\ [][NextFile]_vars

\* the path ends in "." and one of json, yaml, yml in any case, after a file
\* name of at least one more byte
HasSupportedExtension(path) ==
    \E ext \in {sJson, sYaml, sYml} :
        LET n == Len(path) - Len(ext)
        IN /\ n >= 2
           /\ to_lowercase(SubSeq(path, n + 1, Len(path))) = ext
           /\ path[n] = 46
           /\ path[n - 1] # 47

\* C12: read_spec and write_spec return an error for every path whose
\* extension is not json, yaml or yml in some case, write_spec without
\* writing a file; a path with such an extension is refused by neither for
\* its format, and a readable mapping is read and a mapping written.
C12_OnlySupportedExtensions ==
    /\ pc = "read" =>
          /\ ~HasSupportedExtension(file_path) => ~result.ok
          /\ HasSupportedExtension(file_path) =>
                /\ result.err # "Unsupported file format. Please use .json, .yaml, or .yml files"
                /\ (input.readable /\ input.json.some /\ is_mapping(input.json.v)
                       => result.ok)
    /\ pc = "written" =>
          /\ ~HasSupportedExtension(file_path) =>
                ~result.ok /\ writes = 0 /\ disk = Null
          /\ HasSupportedExtension(file_path) =>
                writes = 1 /\ result.err # "Unsupported output format. Please use .json, .yaml, or .yml files"

\* a path in upper case was written, and a path with a "." in its directory
\* only was refused
C12_Witness ==
    \/ /\ pc = "written"
       /\ file_path = sStemA \o sDotYamlUpper
       /\ result.ok /\ disk # Null
    \/ /\ pc = "read"
       /\ file_path = sStemInDir
       /\ input.readable /\ input.yaml.some
       /\ ~result.ok

(***************************************************************************)
(* main (main.rs): the run of the process from the input file to its exit. *)
(* The calls on the terminal are taken to succeed.                         *)
(***************************************************************************)
\* the frames one run draws at most
MaxFrames == 3

\* every way out has the same exit status
ExitStatus_always_zero(outcome) == 0

\* the exit status of the process: main returned Ok, main returned Err, or a
\* thread panicked
ExitStatus(outcome) ==
    IF outcome = "Ok" THEN 0
    ELSE IF outcome = "Err" THEN 1
    ELSE 101

RECURSIVE OpsPanic(_)
\* the unwrap inside "for (ops_method, op) in ops_map"
OpsPanic(pairs) ==
    IF Len(pairs) = 0 THEN None
    ELSE IF ~is_str(pairs[1][1]) THEN Some("Method key is not a string")
    ELSE OpsPanic(Tail(pairs))

RECURSIVE PathsPanic(_)
\* the unwraps inside "for (path, ops) in paths", in the order of the loop
PathsPanic(pairs) ==
    IF Len(pairs) = 0 THEN None
    ELSE IF ~is_str(pairs[1][1]) THEN Some("Path key is not a string")
    ELSE IF ~is_mapping(pairs[1][2]) THEN Some("Operations not a mapping")
    ELSE IF OpsPanic(pairs[1][2].kv).some THEN OpsPanic(pairs[1][2].kv)
    ELSE PathsPanic(Tail(pairs))

\* only the unwrap on "paths" is looked at
fetch_panic_paths_only(document) ==
    LET paths == get_opt(document, Str(sPaths))
    IN IF ~(paths.some /\ is_mapping(paths.v))
       THEN Some("No 'paths' field found or it's not a mapping")
       ELSE None

\* the Option of the message fetch_endpoints_from_spec panics with
fetch_panic(document) ==
    LET paths == get_opt(document, Str(sPaths))
    IN IF ~(paths.some /\ is_mapping(paths.v))
       THEN Some("No 'paths' field found or it's not a mapping")
       ELSE PathsPanic(paths.v.kv)

\* write_spec_to_file up to fs::write: whether an unwrap on "components" or
\* on "schemas" panics, of a document whose keys are strings
write_panic(document) ==
    LET components == get_opt(document, Str(sComponents))
    IN IF ~(components.some /\ is_mapping(components.v)) THEN TRUE
       ELSE \E i \in 1..Len(components.v.kv) :
               /\ components.v.kv[i][1] = Str(sSchemas)
               /\ ~is_mapping(components.v.kv[i][2])

\* write_spec_to_file up to fs::write: the mapping it serializes, of a
\* document with a "components" mapping
write_output(document, items) ==
    LET IsSelected(item) == item.status = "Selected"
        selected == SelectSeq(items, IsSelected)
        original == get(document, Str(sPaths))
        IsThere(item) == contains_key(original, Str(item.path))
        found == SelectSeq(selected, IsThere)
        paths == Mapping([i \in 1..Len(found) |->
                     <<Str(found[i].path), get(original, Str(found[i].path))>>])
        collected == unique(Concat([i \in 1..Len(selected) |-> selected[i].refs]))
        components == get(document, Str(sComponents))
        Collected(pair) == pair[1].s \in Range(collected)
        Preserved(child) ==
            IF child[1] = Str(sSchemas) /\ is_mapping(child[2])
            THEN LET kept == SelectSeq(child[2].kv, Collected)
                 IN Concat([j \in 1..Len(kept) |-> fetch_all_references(kept[j][2])])
            ELSE <<>>
        all_references_to_preserve ==
            Concat([i \in 1..Len(components.kv) |-> Preserved(components.kv[i])])
        all_references_as_schema_index ==
            Range(strip_path_from_references(all_references_to_preserve))
                \cup Range(collected)
        Indexed(pair) == pair[1].s \in all_references_as_schema_index
        Child(child) ==
            IF child[1] # Str(sSchemas) THEN child
            ELSE <<child[1], Mapping(SelectSeq(child[2].kv, Indexed))>>
        Member(pair) ==
            IF pair[1] = Str(sPaths) THEN <<pair[1], paths>>
            ELSE IF pair[1] = Str(sComponents)
                 THEN <<pair[1], Mapping([j \in 1..Len(pair[2].kv) |-> Child(pair[2].kv[j])])>>
            ELSE pair
    IN Mapping([i \in 1..Len(document.kv) |-> Member(document.kv[i])])

\* path items of the documents of a run
MainItemA == ItemRef(RefString(sSchemas, sA))
MainItemB == Mapping(<<Entry(sGet, EmptyMap)>>)

\* the components of the documents of a run
MainComponents ==
    Mapping(<<Entry(sSchemas,
                Mapping(<<Entry(sA, RefObject(RefString(sSchemas, sB))),
                          Entry(sB, EmptyMap), Entry(sC, EmptyMap)>>))>>)

\* documents that load: with components, without, with one path, with no path
LoadableDocuments ==
    {Mapping(<<Entry(sOpenapi, Str(sV3)),
               Entry(sPaths, Mapping(<<Entry(sPathB, MainItemB), Entry(sPathA, MainItemA)>>)),
               Entry(sComponents, MainComponents)>>),
     Mapping(<<Entry(sPaths, Mapping(<<Entry(sPathA, MainItemA), Entry(sPathB, MainItemB)>>))>>),
     Mapping(<<Entry(sComponents, MainComponents),
               Entry(sPaths, Mapping(<<Entry(sPathA, MainItemA)>>))>>),
     Mapping(<<Entry(sPaths, EmptyMap), Entry(sComponents, MainComponents)>>)}

\* documents with one defect each: no "paths", "paths" no mapping, a path
\* key no string, a path value no mapping (first and after a sound path), a
\* method key no string (first and after a sound method)
DefectiveDocuments ==
    {Mapping(<<Entry(sOpenapi, Str(sV3)), Entry(sComponents, MainComponents)>>),
     Mapping(<<Entry(sPaths, Sequence(<<MainItemA>>))>>),
     Mapping(<<Entry(sPaths, Null)>>),
     Mapping(<<Entry(sPaths, Mapping(<<<<Num(<<49>>), MainItemA>>>>))>>),
     Mapping(<<Entry(sPaths, Mapping(<<Entry(sPathA, Str(sV3))>>))>>),
     Mapping(<<Entry(sPaths, Mapping(<<Entry(sPathA, MainItemA), Entry(sPathB, Null)>>)),
               Entry(sComponents, MainComponents)>>),
     Mapping(<<Entry(sPaths, Mapping(<<Entry(sPathA,
                   Mapping(<<<<Null, EmptyMap>>>>))>>))>>),
     Mapping(<<Entry(sPaths, Mapping(<<Entry(sPathA,
                   Mapping(<<Entry(sGet, EmptyMap), <<Num(<<49>>), EmptyMap>>>>))>>)),
               Entry(sComponents, MainComponents)>>)}

\* what reading the input file and parsing it as YAML may give: no text, no
\* YAML, YAML that is no mapping, a mapping
MainInputs ==
    {[readable |-> FALSE, json |-> None, yaml |-> None],
     [readable |-> TRUE, json |-> None, yaml |-> None],
     [readable |-> TRUE, json |-> None, yaml |-> Some(Str(sV3))],
     [readable |-> TRUE, json |-> None, yaml |-> Some(Sequence(<<>>))]}
    \cup {[readable |-> TRUE, json |-> None, yaml |-> Some(d)] :
             d \in LoadableDocuments \cup DefectiveDocuments}

InitMain ==
    /\ spec = Null
    /\ selected_items = <<>>
    /\ output = Null
    /\ table_items = <<>>
    /\ pc = "main"
    /\ NoSearch
    /\ NoClosure
    /\ NoRun
    /\ NoFile

\* the process ends with a report on stderr
Ended(outcome, report) ==
    /\ exit_code' = [some |-> TRUE, v |-> ExitStatus(outcome)]
    /\ stderr' = Append(stderr, report)
    /\ pc' = "exited"

\* main up to the loop: read_to_string, from_str, fetch_endpoints_from_spec,
\* select_first; of documents without "parameters" the list is that of
\* fetch_endpoints_from_spec in spec_processor.rs
Start ==
    /\ pc = "main"
    /\ \E content \in MainInputs :
          /\ input' = content
          /\ IF ~content.readable
             THEN /\ Ended("Err", "read")
                  /\ UNCHANGED <<spec, table_items, cursor>>
             ELSE IF ~(content.yaml.some /\ is_mapping(content.yaml.v))
             THEN /\ Ended("Err", "parse")
                  /\ UNCHANGED <<spec, table_items, cursor>>
             ELSE IF fetch_panic(content.yaml.v).some
             THEN /\ spec' = content.yaml.v
                  /\ Ended("panic", fetch_panic(content.yaml.v).v)
                  /\ UNCHANGED <<table_items, cursor>>
             ELSE /\ spec' = content.yaml.v
                  /\ table_items' = fetch_endpoints_from_spec(content.yaml.v)
                  /\ cursor' = [some |-> TRUE, v |-> 0]
                  /\ pc' = "loop"
                  /\ UNCHANGED <<exit_code, stderr>>
    /\ UNCHANGED <<selected_items, output, search_active, query, backup, last_msg,
                   closureVars, running_state, frames, events, writes, disk, fileVars>>

\* a turn begins whatever the running state is
Turn_unchecked ==
    /\ pc = "loop"
    /\ frames < MaxFrames
    /\ frames' = frames + 1

\* one turn of the loop begins: terminal.draw
Turn ==
    /\ pc = "loop"
    /\ running_state = "Running"
    /\ frames < MaxFrames
    /\ frames' = frames + 1

\* update is called with a message; last_msg keeps the message with the
\* list and the cursor it met
Received(msg, row, offset) ==
    [msg |-> msg, row |-> row, offset |-> offset, cursor |-> cursor, items |-> table_items]

Message(msg) ==
    /\ events' = events + 1
    /\ last_msg' = Received(msg, 0, 0)

\* handle_event returns None: no event within the poll, or one without a message
NoEvent ==
    /\ Turn
    /\ UNCHANGED <<spec, selected_items, output, table_items, pc, searchVars, closureVars,
                   input, running_state, exit_code, events, writes, stderr, disk, fileVars>>

\* update(Message::Quit)
Quit ==
    /\ Turn
    /\ Message("Quit")
    /\ running_state' = "Done"
    /\ UNCHANGED <<spec, selected_items, output, table_items, pc, cursor, search_active,
                   query, backup, closureVars, input, exit_code, writes, stderr, disk,
                   fileVars>>

\* the WriteAndQuit arm of update: write_spec_to_file panics on its unwraps,
\* that of fs::write among them, and returns Ok otherwise
WriteThenDone ==
    IF write_panic(spec)
    THEN /\ Ended("panic", "called Option::unwrap() on a None value")
         /\ UNCHANGED <<output, writes, disk, running_state>>
    ELSE /\ output' = write_output(spec, table_items)
         /\ writes' = writes + 1
         /\ \E written \in BOOLEAN :
               IF written
               THEN /\ disk' = write_output(spec, table_items)
                    /\ running_state' = "Done"
                    /\ UNCHANGED <<exit_code, stderr, pc>>
               ELSE /\ Ended("panic", "Failed to write output to file")
                    /\ UNCHANGED <<disk, running_state>>

\* update(Message::WriteAndQuit)
WriteAndQuit ==
    /\ Turn
    /\ Message("WriteAndQuit")
    /\ WriteThenDone
    /\ UNCHANGED <<spec, selected_items, table_items, cursor, search_active, query, backup,
                   closureVars, input, fileVars>>

\* "current_index < model.table_items.len() - 1" where the subtraction did
\* not panic: of an empty list len() - 1 has wrapped to usize::MAX, above
\* every index
BeforeLast(current_index, len) ==
    IF len = 0 THEN TRUE ELSE current_index < len - 1

\* update(Message::SelectNext); len() - 1 of an empty list panics in a build
\* with overflow checks and wraps in one without
SelectNext ==
    /\ Turn
    /\ Message("SelectNext")
    /\ \E overflow_checks \in BOOLEAN :
          IF Len(table_items) = 0 /\ overflow_checks
          THEN /\ Ended("panic", "attempt to subtract with overflow")
               /\ UNCHANGED cursor
          ELSE /\ cursor' = IF BeforeLast(cursor.v, Len(table_items))
                            THEN [some |-> TRUE, v |-> cursor.v + 1] ELSE cursor
               /\ UNCHANGED <<pc, exit_code, stderr>>
    /\ UNCHANGED <<spec, selected_items, output, table_items, search_active, query,
                   backup, closureVars, input, running_state, writes, disk, fileVars>>

\* update(Message::SelectPrevious)
SelectPrevious ==
    /\ Turn
    /\ Message("SelectPrevious")
    /\ cursor' = IF cursor.v > 0 THEN [some |-> TRUE, v |-> cursor.v - 1] ELSE cursor
    /\ UNCHANGED <<spec, selected_items, output, table_items, pc, search_active, query,
                   backup, closureVars, input, running_state, exit_code, writes, stderr,
                   disk, fileVars>>

\* the cursor stays where it is after the toggle
ToggleSelectItemAndSelectNext_staying ==
    /\ Turn
    /\ Message("ToggleSelectItemAndSelectNext")
    /\ cursor.v < Len(table_items)
    /\ table_items' = [table_items EXCEPT ![cursor.v + 1].status =
                          IF @ = "Selected" THEN "Unselected" ELSE "Selected"]
    /\ UNCHANGED <<spec, selected_items, output, pc, cursor, search_active, query, backup,
                   closureVars, input, running_state, exit_code, writes, stderr, disk,
                   fileVars>>

\* update(Message::ToggleSelectItemAndSelectNext); table_items[current_index]
\* panics when the index is not in the list
ToggleSelectItemAndSelectNext ==
    /\ Turn
    /\ Message("ToggleSelectItemAndSelectNext")
    /\ IF cursor.v >= Len(table_items)
       THEN /\ Ended("panic", "index out of bounds")
            /\ UNCHANGED <<table_items, cursor>>
       ELSE /\ table_items' = [table_items EXCEPT ![cursor.v + 1].status =
                                  IF @ = "Selected" THEN "Unselected" ELSE "Selected"]
            /\ cursor' = IF BeforeLast(cursor.v, Len(table_items))
                         THEN [some |-> TRUE, v |-> cursor.v + 1] ELSE cursor
            /\ UNCHANGED <<pc, exit_code, stderr>>
    /\ UNCHANGED <<spec, selected_items, output, search_active, query, backup,
                   closureVars, input, running_state, writes, disk, fileVars>>

\* the terminal rows a click is tried on
MaxRow == 4

\* the rows of the border and of the header above the first item
HeaderRows == 2

\* update(Message::SelectRow(row)) of a click on row, the table scrolled by
\* offset, which is at most the index of the selected row; "row as usize - 2"
\* of a row above the items panics in a build with overflow checks and wraps
\* in one without, and the sum then wraps back when it reaches 2^64
SelectRow ==
    /\ Turn
    /\ events' = events + 1
    /\ \E row \in 0..MaxRow, offset \in 0..cursor.v, overflow_checks \in BOOLEAN :
          /\ last_msg' = Received("SelectRow", row, offset)
          /\ IF row < HeaderRows /\ overflow_checks
             THEN /\ Ended("panic", "attempt to subtract with overflow")
                  /\ UNCHANGED cursor
             ELSE /\ cursor' = IF /\ row + offset >= HeaderRows
                                  /\ row + offset - HeaderRows < Len(table_items)
                               THEN [some |-> TRUE, v |-> row + offset - HeaderRows]
                               ELSE cursor
                  /\ UNCHANGED <<pc, exit_code, stderr>>
    /\ UNCHANGED <<spec, selected_items, output, table_items, search_active, query,
                   backup, closureVars, input, running_state, writes, disk, fileVars>>

\* the loop ends: main returns Ok(())
Return ==
    /\ pc = "loop"
    /\ running_state = "Done"
    /\ exit_code' = [some |-> TRUE, v |-> ExitStatus("Ok")]
    /\ pc' = "exited"
    /\ UNCHANGED <<spec, selected_items, output, table_items, searchVars, closureVars,
                   input, running_state, frames, events, writes, stderr, disk, fileVars>>

NextMain ==
    \/ Start
    \/ NoEvent
    \/ Quit
    \/ WriteAndQuit
    \/ SelectNext
    \/ SelectPrevious
    \/ ToggleSelectItemAndSelectNext
    \/ SelectRow
    \/ Return

SpecMain == InitMain /\ [][NextMain]_vars

\* the input file was read and held a mapping
ParsedMapping == input # Null /\ input.readable /\ input.yaml.some /\ is_mapping(input.yaml.v)

\* the document has no "paths" mapping, or a path key that is no string, or
\* a path value that is no mapping, or a method key that is no string
Defective(document) ==
    \/ ~contains_key(document, Str(sPaths))
    \/ ~is_mapping(get(document, Str(sPaths)))
    \/ \E i \in 1..Len(get(document, Str(sPaths)).kv) :
          LET pair == get(document, Str(sPaths)).kv[i]
          IN \/ ~is_str(pair[1])
             \/ ~is_mapping(pair[2])
             \/ \E j \in 1..Len(pair[2].kv) : ~is_str(pair[2].kv[j][1])

\* loading the document failed
LoadFailed == input # Null /\ (~ParsedMapping \/ Defective(input.yaml.v))

\* the write of the output file was tried and failed
WriteFailed == writes > 0 /\ disk = Null

\* C11: the process exits with 0 after Quit and after a WriteAndQuit whose
\* write succeeded, and with another code when loading failed or the write
\* failed.
C11_ExitCodes ==
    /\ exit_code.some <=> pc = "exited"
    /\ pc = "exited" =>
          /\ last_msg.msg = "Quit" => exit_code.v = 0
          /\ (last_msg.msg = "WriteAndQuit" /\ disk # Null) => exit_code.v = 0
          /\ LoadFailed => exit_code.v # 0
          /\ WriteFailed => exit_code.v # 0
    /\ (pc = "loop" /\ running_state = "Done") =>
          \/ last_msg.msg = "Quit"
          \/ last_msg.msg = "WriteAndQuit" /\ disk # Null

\* the process has exited after a write that failed
C11_Witness ==
    /\ pc = "exited"
    /\ WriteFailed
    /\ exit_code.v = 101

\* C13: a document with one of the five defects makes the process end
\* before the loop, with no frame drawn and no message processed.
C13_LoadFailsBeforeLoop ==
    (ParsedMapping /\ Defective(input.yaml.v)) =>
        /\ pc = "exited"
        /\ exit_code.v # 0
        /\ frames = 0
        /\ events = 0
        /\ table_items = <<>>

\* the method key that is no string came after a sound method
C13_Witness ==
    /\ ParsedMapping
    /\ stderr = <<"Method key is not a string">>
    /\ contains_key(get(get(input.yaml.v, Str(sPaths)), Str(sPathA)), Str(sGet))
    /\ pc = "exited"
    /\ frames = 0

\* C14: after a write that failed the failure is reported, the write was
\* tried once and the running state is Done.
C14_WriteFailureStillQuits ==
    WriteFailed =>
        /\ stderr # <<>>
        /\ writes = 1
        /\ running_state = "Done"

(***************************************************************************)
(* The output of process_spec_for_output taken as a document of its own.   *)
(***************************************************************************)
\* C27: every reference of the output that names a definition of the input
\* names a definition of the output.
C27_NoDanglingReference ==
    Done =>
        \A cn \in DefinedComponents(spec) :
            RefString(cn[1], cn[2]) \in RefStrings(output)
               => cn \in DefinedComponents(output)

\* every path of the output, selected, in the order of the output
OutputEndpoints ==
    [i \in 1..Len(get(output, Str(sPaths)).kv) |->
        SelectedEndpoint(get(output, Str(sPaths)).kv[i][1].s)]

\* C28: the output assembled again, with all of its paths selected in their
\* order, is the output.
C28_AssemblyIdempotent ==
    Done => process_spec_for_output(output, OutputEndpoints) = output

\* the first assembly dropped a path and a component and kept two paths
\* against the order of the document, with a component
C28_Witness ==
    /\ Done
    /\ keys(get(spec, Str(sPaths))) = <<Str(sPathA), Str(sPathB)>>
    /\ keys(get(output, Str(sPaths))) = <<Str(sPathB), Str(sPathA)>>
    /\ DefinedComponents(output) # {}
    /\ DefinedComponents(output) # DefinedComponents(spec)
    /\ process_spec_for_output(output, OutputEndpoints) = output

(***************************************************************************)
(* The messages of a run, each judged by the list and the cursor it met.   *)
(***************************************************************************)
\* no panic has ended the process
NoCrash == exit_code = NoExit \/ exit_code.v = 0

Toggled == last_msg.msg = "ToggleSelectItemAndSelectNext"

\* the index the last message met is in the list it met
MetValidIndex == last_msg.cursor.v \in 0..(Len(last_msg.items) - 1)

C23_ClickedRowInBand ==
    last_msg.msg = "SelectRow" =>
        LET index == last_msg.row - 2 + last_msg.offset
        IN /\ NoCrash
           /\ cursor.v = IF /\ last_msg.row >= 2
                            /\ index \in 0..(Len(last_msg.items) - 1)
                         THEN index ELSE last_msg.cursor.v

\* C29: the output file is written at most once and only by WriteAndQuit;
\* once the running state is Done no message is handled, no frame drawn, and
\* the state stays Done.
C29_WrittenOnceThenDone ==
    /\ [](writes <= 1)
    /\ [][(writes' # writes \/ disk' # disk)
             => (last_msg'.msg = "WriteAndQuit" /\ events' = events + 1)]_vars
    /\ [][running_state = "Done"
             => /\ running_state' = "Done"
                /\ events' = events
                /\ frames' = frames
                /\ last_msg' = last_msg
                /\ writes' = writes
                /\ disk' = disk]_vars

\* the process has exited after a toggle and a write that succeeded
C29_Witness ==
    /\ pc = "exited"
    /\ running_state = "Done"
    /\ writes = 1
    /\ disk # Null
    /\ events >= 2
    /\ \E i \in 1..Len(table_items) : table_items[i].status = "Selected"

\* C30: a toggle at a valid index i flips endpoint i, leaves the rest of the
\* list as it was, and moves the cursor to i + 1 or, at the last index,
\* leaves it; a second toggle right after it restores endpoint i exactly
\* when i is the last index.
C30_ToggleFlipsOneAndAdvances ==
    /\ []((Toggled /\ MetValidIndex) =>
             LET i == last_msg.cursor.v
                 items == last_msg.items
             IN /\ NoCrash
                /\ table_items =
                      [items EXCEPT ![i + 1].status =
                          IF @ = "Selected" THEN "Unselected" ELSE "Selected"]
                /\ cursor.v = IF i = Len(items) - 1 THEN i ELSE i + 1)
    /\ [][(Toggled /\ MetValidIndex /\ events' = events + 1
              /\ last_msg'.msg = "ToggleSelectItemAndSelectNext")
             => LET i == last_msg.cursor.v
                IN (table_items'[i + 1].status = last_msg.items[i + 1].status)
                      <=> (i = Len(last_msg.items) - 1)]_vars

\* two toggles from the first of two endpoints have selected both
C30_Witness ==
    /\ Toggled
    /\ Len(table_items) = 2
    /\ last_msg.cursor.v = 1
    /\ last_msg.items[1].status = "Selected"
    /\ last_msg.items[2].status = "Unselected"
    /\ table_items[1].status = "Selected"
    /\ table_items[2].status = "Selected"
    /\ cursor.v = 1

(***************************************************************************)
(* SpecOutput: the two places an output document is computed, the call of  *)
(* process_spec_for_output and the WriteAndQuit of a run.                  *)
(***************************************************************************)
InitOutput ==
    \/ Init
    \/ InitMain

NextOutput ==
    \/ Process
    \/ NextMain

SpecOutput == InitOutput /\ [][NextOutput]_vars

\* C25: the step that computes the output, process_spec_for_output or
\* WriteAndQuit, leaves the document, the selection and the endpoint list
\* as they were.
C25_InputsNotMutated ==
    [][(\/ pc = "ready" /\ pc' = "done"
        \/ last_msg'.msg = "WriteAndQuit" /\ events' = events + 1)
          => /\ spec' = spec
             /\ selected_items' = selected_items
             /\ table_items' = table_items]_vars

\* a pruned document was written for a list with a selected endpoint
C25_Witness ==
    /\ last_msg.msg = "WriteAndQuit"
    /\ disk # Null
    /\ disk # spec
    /\ table_items = last_msg.items
    /\ \E i \in 1..Len(table_items) : table_items[i].status = "Selected"

(***************************************************************************)
(* SpecSessions: search sessions with toggles between them.  Outside a     *)
(* session a toggle is that of the selection model: it flips the status in *)
(* the list, sorts the list Selected first, and keeps the cursor on the    *)
(* entry; the design names no write to the backup there.                   *)
(***************************************************************************)
\* toggle(index) and reorder_after_toggle() outside a search session
ToggleOutsideSearch ==
    /\ ~search_active
    /\ Pressed("ToggleSelectItemAndSelectNext")
    /\ IF cursor.some /\ cursor.v < Len(table_items)
       THEN LET path == table_items[cursor.v + 1].path
            IN /\ table_items' = sort_selected_first(FlipPath(table_items, path))
               /\ cursor' = repair_selection(Some(path), table_items')
       ELSE UNCHANGED <<table_items, cursor>>
    /\ last_msg' = Handled("ToggleSelectItemAndSelectNext", FALSE)
    /\ UNCHANGED <<spec, selected_items, output, pc, search_active, query, backup>>
    /\ UNCHANGED <<closureVars, runVars, fileVars>>

NextSessions ==
    \/ NextSearch
    \/ ToggleOutsideSearch

SpecSessions == InitSearch /\ [][NextSessions]_vars

\* the full endpoint list: the backup during a session, the list outside
Authoritative(active, saved, items) == IF active /\ saved.some THEN saved.v ELSE items

\* enter() is handled
Entered == ~search_active /\ search_active'

KeyQuit ==
    /\ pc = "running"
    /\ running_state = "Running"
    /\ Pressed("Quit")
    /\ running_state' = "Done"
    /\ last_msg' = Handled("Quit", FALSE)
    /\ UNCHANGED <<spec, selected_items, output, table_items, pc, cursor, search_active,
                   query, backup, closureVars, input, exit_code, frames, events, writes,
                   stderr, disk, fileVars>>

\* update(Message::WriteAndQuit) for a key of the present mode
KeyWriteAndQuit ==
    /\ pc = "running"
    /\ running_state = "Running"
    /\ Pressed("WriteAndQuit")
    /\ WriteThenDone
    /\ last_msg' = Handled("WriteAndQuit", FALSE)
    /\ UNCHANGED <<spec, selected_items, table_items, cursor, search_active, query, backup,
                   closureVars, input, frames, events, fileVars>>

\* the loop handles messages while the running state is Running
NextKeys ==
    \/ (pc = "running" /\ running_state = "Running" /\ NextSessions)
    \/ KeyQuit
    \/ KeyWriteAndQuit

SpecKeys == InitSearch /\ [][NextKeys]_vars

\* C26: in a search session no key gives Quit or WriteAndQuit, 'q' and 'w'
\* are query input, and Space gives the toggle in both modes; the run ends
\* only outside a session, and a session ends only by HideSearch.
C26_NoQuitWhileSearching ==
    /\ [](/\ \A key \in Keys : handle_key(key, TRUE) \notin {"Quit", "WriteAndQuit"}
          /\ handle_key(Char("q"), TRUE) = "KeyPress"
          /\ handle_key(Char("w"), TRUE) = "KeyPress"
          /\ handle_key(Char(" "), TRUE) = "ToggleSelectItemAndSelectNext"
          /\ handle_key(Char(" "), FALSE) = "ToggleSelectItemAndSelectNext")
    /\ [][(running_state = "Running" /\ (running_state' = "Done" \/ pc' = "exited"))
             => /\ ~search_active
                /\ last_msg'.msg \in {"Quit", "WriteAndQuit"}]_vars
    /\ [][(search_active /\ ~search_active') => last_msg'.msg = "HideSearch"]_vars

\* the run ended by 'q' after a session in which 'q' was typed into the
\* query and the session was closed
C26_Witness ==
    /\ running_state = "Done"
    /\ last_msg.msg = "Quit"
    /\ backup.some
    /\ ~search_active

\* 'q' was typed into the query of a session
C26_WitnessTyped ==
    /\ search_active
    /\ query = <<113>>
    /\ running_state = "Running"

=============================================================================
